---- MODULE Spec2Model ----
(***************************************************************************)
(* Model of the permission editor of sf-ext-plus: permission flag          *)
(* normalization (permissionFlags.ts), the metadata XML upsert (xmlEdit),  *)
(* target resolution (resolve) and the toggle command (toggle).            *)
(*                                                                         *)
(* The module holds several specifications over one set of variables:      *)
(*   SpecFlags   the two pure normalization functions applied to inputs    *)
(*   SpecXml     applyObjectPermissionsToFile / applyFieldPermissionsToFile *)
(*               applied to one metadata file                               *)
(*   Spec        one run of runToggleObjectFieldPermissions                 *)
(*   SpecCli     one call of a wrapper of the Salesforce CLI                *)
(*   SpecRefresh refreshPermissionMetadata, run by the command and by the   *)
(*               background timer, on the cache in globalState              *)
(*   SpecTimer   activation, configuration changes and disposal of the      *)
(*               permission editor and the timers they arm                  *)
(*   SpecName    labelToDeveloperName applied to labels                     *)
(*   SpecPath    parseObjectFieldFromPath applied to paths                  *)
(*   SpecFilter  getPermissionSetMetadataFileUrisToDelete applied to lists  *)
(*               of URIs                                                    *)
(*   SpecCreate  one run of createPermissionSet                             *)
(*   SpecDelete  one run of deletePermissionSet                             *)
(* Each specification keeps the variables of the others at their idle      *)
(* values.                                                                 *)
(***************************************************************************)
EXTENDS Integers, Sequences, FiniteSets, TLC

VARIABLES
    \* ---- SpecFlags: normalization of one flag object
    objIn,        \* the ObjectPermissionFlags object passed in
    objOut,       \* result of normalizeObjectPermissionFlags(objIn), or None
    objOut2,      \* result of normalizing objOut again, or None
    fieldIn,      \* the FieldPermissionFlags object passed in
    fieldOut,     \* result of normalizeFieldPermissionFlags(fieldIn), or None
    fieldOut2,    \* result of normalizing fieldOut again, or None
    \* ---- SpecXml: one metadata file and the calls applied to it
    disk,         \* the metadata file as stored (tag values are text)
    before,       \* the file as stored before the last call
    last,         \* the last call: its arguments and outcome
    sameAsPrev,   \* the last call had the arguments of the call before it
    nCalls,       \* number of calls made
    \* ---- Spec: one run of runToggleObjectFieldPermissions
    tpc,          \* where the run is
    focused,      \* kind of the focused metadata file: object or field
    selected,     \* selectedTargets, as indices into the target items
    files,        \* the metadata files of the workspace: path -> content
    files0,       \* the files of the workspace when the run started
    existing,     \* first row of the ObjectPermissions query, or None
    flagsPicked,  \* the object (or field) flags made from the user's pick
    tstate,       \* per selected target: how far its loop iteration is
    resolved,     \* per selected target: the path resolveMetadataFile gave
    retrieveStarted, \* the selected targets a CLI retrieve was started for
    errors,       \* the error messages shown: <<target, message>>
    filesToDeploy,   \* filesToDeploy of the run
    deployLog,    \* the deploy commands issued: directory and outcome
    ending,       \* how the run ended
    \* ---- SpecCli: one call of a CLI wrapper
    cliCall,      \* the wrapper called and what the process gave, or None
    cliResult,    \* how the promise of the wrapper settled, or None
    \* ---- SpecRefresh: the runs of refreshPermissionMetadata
    workspaceFolders, \* vscode.workspace.workspaceFolders has a folder
    sfdxProject,  \* the workspace folder holds an SFDX project
    cache,        \* the three values of globalState
    runs,         \* the invocations of refreshPermissionMetadata
    \* ---- SpecTimer: the background schedule
    ext,          \* the extension: loaded, active or disposed
    setting,      \* the configured permissionMetadata.refreshIntervalMinutes
    backgroundTimer, \* the module variable backgroundTimer: a timer or None
    intervals,    \* the live timers made by setInterval
    timeouts,     \* the pending timers made by setTimeout
    nextId,       \* the number of schedules armed so far
    invoked,      \* the calls of runRefresh that reached the refresh
    \* ---- SpecName: labelToDeveloperName
    label,        \* the argument
    devName,      \* the value returned, or None
    \* ---- SpecPath: parseObjectFieldFromPath
    filePath,     \* the argument: the segments of the path, or None
    focusedMetadata, \* the value returned (null is Null), or None
    \* ---- SpecFilter: getPermissionSetMetadataFileUrisToDelete
    uris,         \* the URIs passed in
    permSetName,  \* the name passed in, or None
    toDelete,     \* the URIs returned, or None
    \* ---- SpecCreate: one run of createPermissionSet
    createPc,     \* where the run is
    answers,      \* what each prompt gave, None for a prompt not shown
    retrieveSetting, \* createPermissionSet.retrieveAfterCreate as configured
    createLog,    \* the calls to the CLI and to the org, in order
    createShown,  \* the messages shown
    \* ---- SpecDelete: one run of deletePermissionSet
    deletePc,     \* where the run is
    deleteMetadataFile, \* deleteMetadataFile of the run, or None
    assignmentRecords,  \* assignmentRecords of the run
    deleteLog,    \* the calls to the CLI and to the file system, in order
    deleteShown   \* the messages shown

flagVars == <<objIn, objOut, objOut2, fieldIn, fieldOut, fieldOut2>>
xmlVars == <<disk, before, last, sameAsPrev, nCalls>>
toggleVars ==
    <<tpc, focused, selected, files, files0, existing, flagsPicked, tstate,
      resolved, retrieveStarted, errors, filesToDeploy, deployLog, ending>>

cliVars == <<cliCall, cliResult>>
refreshVars == <<workspaceFolders, sfdxProject, cache, runs>>
timerVars == <<ext, setting, backgroundTimer, intervals, timeouts, nextId, invoked>>
nameVars == <<label, devName>>
pathVars == <<filePath, focusedMetadata>>
filterVars == <<uris, permSetName, toDelete>>
createVars == <<createPc, answers, retrieveSetting, createLog, createShown>>
deleteVars == <<deletePc, deleteMetadataFile, assignmentRecords, deleteLog, deleteShown>>
finalVars == <<pathVars, filterVars, createVars, deleteVars>>
laterVars == <<cliVars, refreshVars, timerVars, nameVars, finalVars>>

\* An absent value is the empty tuple, a present value v is <<v>>.
None == << >>

Some(v) == <<v>>

(***************************************************************************)
(* Permission flags                                                        *)
(***************************************************************************)
ObjectFlagNames ==
    {"allowCreate", "allowDelete", "allowEdit", "allowRead",
     "viewAllRecords", "modifyAllRecords"}

FieldFlagNames == {"editable", "readable"}

ObjectPermissionFlags == [ObjectFlagNames -> BOOLEAN]

FieldPermissionFlags == [FieldFlagNames -> BOOLEAN]

\* A faulty variant of the object normalization: the allowEdit rule is applied before
\* the modifyAllRecords rule has set allowEdit (rules in the wrong order, each
\* reading the input instead of the copy being built).
NormalizeObjectReadsInput(flags) ==
    [flags EXCEPT
        !.allowEdit = flags.allowEdit \/ flags.modifyAllRecords,
        !.allowRead = flags.allowRead \/ flags.viewAllRecords \/ flags.allowEdit]

\* A faulty variant of the object normalization without the viewAllRecords rule.
NormalizeObjectNoViewAll(flags) ==
    LET o1 == IF flags.modifyAllRecords
              THEN [flags EXCEPT !.allowRead = TRUE, !.allowEdit = TRUE]
              ELSE flags
    IN  IF o1.allowEdit THEN [o1 EXCEPT !.allowRead = TRUE] ELSE o1

\* normalizeObjectPermissionFlags: a copy of the flags with the implied
\* permissions set, rule after rule on the copy.
NormalizeObjectPermissionFlags(flags) ==
    LET o1 == IF flags.modifyAllRecords
              THEN [flags EXCEPT !.allowRead = TRUE, !.allowEdit = TRUE]
              ELSE flags
        o2 == IF o1.viewAllRecords THEN [o1 EXCEPT !.allowRead = TRUE] ELSE o1
        o3 == IF o2.allowEdit THEN [o2 EXCEPT !.allowRead = TRUE] ELSE o2
    IN  o3

\* normalizeFieldPermissionFlags: editable implies readable.
NormalizeFieldPermissionFlags(flags) ==
    IF flags.editable THEN [flags EXCEPT !.readable = TRUE] ELSE flags

(***************************************************************************)
(* SpecFlags: the normalization functions applied to every flag object     *)
(***************************************************************************)
FlagsIdle ==
    /\ objIn = [n \in ObjectFlagNames |-> FALSE]
    /\ objOut = None
    /\ objOut2 = None
    /\ fieldIn = [n \in FieldFlagNames |-> FALSE]
    /\ fieldOut = None
    /\ fieldOut2 = None

XmlIdle ==
    /\ disk = None
    /\ before = None
    /\ last = None
    /\ sameAsPrev = FALSE
    /\ nCalls = 0

ToggleIdle ==
    /\ tpc = "idle"
    /\ focused = "none"
    /\ selected = << >>
    /\ files = << >>
    /\ files0 = << >>
    /\ existing = None
    /\ flagsPicked = None
    /\ tstate = << >>
    /\ resolved = << >>
    /\ retrieveStarted = {}
    /\ errors = {}
    /\ filesToDeploy = << >>
    /\ deployLog = << >>
    /\ ending = "idle"

CliIdle ==
    /\ cliCall = None
    /\ cliResult = None

RefreshIdle ==
    /\ workspaceFolders = FALSE
    /\ sfdxProject = FALSE
    /\ cache = None
    /\ runs = << >>

TimerIdle ==
    /\ ext = "idle"
    /\ setting = None
    /\ backgroundTimer = None
    /\ intervals = {}
    /\ timeouts = {}
    /\ nextId = 0
    /\ invoked = {}

NameIdle ==
    /\ label = None
    /\ devName = None

PathIdle ==
    /\ filePath = None
    /\ focusedMetadata = None

FilterIdle ==
    /\ uris = << >>
    /\ permSetName = None
    /\ toDelete = None

CreateIdle ==
    /\ createPc = "idle"
    /\ answers = None
    /\ retrieveSetting = None
    /\ createLog = << >>
    /\ createShown = {}

DeleteIdle ==
    /\ deletePc = "idle"
    /\ deleteMetadataFile = None
    /\ assignmentRecords = << >>
    /\ deleteLog = << >>
    /\ deleteShown = {}

FinalIdle == PathIdle /\ FilterIdle /\ CreateIdle /\ DeleteIdle

LaterIdle == CliIdle /\ RefreshIdle /\ TimerIdle /\ NameIdle /\ FinalIdle

InitFlags ==
    /\ objIn \in ObjectPermissionFlags
    /\ objOut = None
    /\ objOut2 = None
    /\ fieldIn \in FieldPermissionFlags
    /\ fieldOut = None
    /\ fieldOut2 = None
    /\ XmlIdle
    /\ ToggleIdle
    /\ LaterIdle

\* A faulty variant of the call: `out` aliases the argument instead of copying it, so
\* the caller's object is changed too.
NormalizeObjectCallAliasing ==
    /\ objOut = None
    /\ objOut' = Some(NormalizeObjectPermissionFlags(objIn))
    /\ objIn' = objOut'[1]
    /\ UNCHANGED <<objOut2, fieldIn, fieldOut, fieldOut2>>
    /\ UNCHANGED <<xmlVars, toggleVars, laterVars>>

\* const out = { ...flags }; ...; return out    (the argument is not assigned)
NormalizeObjectCall ==
    /\ objOut = None
    /\ objOut' = Some(NormalizeObjectPermissionFlags(objIn))
    /\ UNCHANGED <<objIn, objOut2, fieldIn, fieldOut, fieldOut2>>
    /\ UNCHANGED <<xmlVars, toggleVars, laterVars>>

\* normalizeObjectPermissionFlags applied to its own result
NormalizeObjectAgain ==
    /\ objOut # None
    /\ objOut2 = None
    /\ objOut2' = Some(NormalizeObjectPermissionFlags(objOut[1]))
    /\ UNCHANGED <<objIn, objOut, fieldIn, fieldOut, fieldOut2>>
    /\ UNCHANGED <<xmlVars, toggleVars, laterVars>>

NormalizeFieldCall ==
    /\ fieldOut = None
    /\ fieldOut' = Some(NormalizeFieldPermissionFlags(fieldIn))
    /\ UNCHANGED <<objIn, objOut, objOut2, fieldIn, fieldOut2>>
    /\ UNCHANGED <<xmlVars, toggleVars, laterVars>>

NormalizeFieldAgain ==
    /\ fieldOut # None
    /\ fieldOut2 = None
    /\ fieldOut2' = Some(NormalizeFieldPermissionFlags(fieldOut[1]))
    /\ UNCHANGED <<objIn, objOut, objOut2, fieldIn, fieldOut>>
    /\ UNCHANGED <<xmlVars, toggleVars, laterVars>>

NextFlags ==
    \/ NormalizeObjectCall
    \/ NormalizeObjectAgain
    \/ NormalizeFieldCall
    \/ NormalizeFieldAgain

vars == <<flagVars, xmlVars, toggleVars, laterVars>>

SpecFlags == InitFlags /\ [][NextFlags]_vars

\* The implication rules of permissionFlags.ts on one flag object.
ObjectRulesHold(f) ==
    /\ f.modifyAllRecords => (f.allowRead /\ f.allowEdit)
    /\ f.viewAllRecords => f.allowRead
    /\ f.allowEdit => f.allowRead

FieldRulesHold(f) == f.editable => f.readable

\* C5: for every combination of input flags the result of normalization
\* satisfies every implication rule: modifyAllRecords implies allowRead and
\* allowEdit, viewAllRecords implies allowRead, allowEdit implies allowRead,
\* and editable implies readable.
C5_NormalizedSatisfiesRules ==
    /\ objOut # None => ObjectRulesHold(objOut[1])
    /\ fieldOut # None => FieldRulesHold(fieldOut[1])

\* C5 witness: an input that breaks every object rule and one that breaks the
\* field rule have been normalized.
C5_Witness ==
    /\ objOut # None
    /\ objIn.modifyAllRecords /\ objIn.viewAllRecords
    /\ ~objIn.allowRead /\ ~objIn.allowEdit
    /\ fieldOut # None
    /\ fieldIn.editable /\ ~fieldIn.readable

\* C6: normalization is idempotent: normalizing the result of a normalization
\* gives that result again, for all 64 object and all 4 field combinations.
C6_NormalizeIdempotent ==
    /\ objOut2 # None => objOut2 = objOut
    /\ fieldOut2 # None => fieldOut2 = fieldOut

\* C6 witness: a result that differs from its input has been normalized again.
C6_Witness ==
    /\ objOut2 # None
    /\ objOut[1] # objIn
    /\ fieldOut2 # None
    /\ fieldOut[1] # fieldIn

ObjectImplyingFlags == {"modifyAllRecords", "viewAllRecords", "allowEdit"}

ObjectFrameFlags ==
    {"allowCreate", "allowDelete", "viewAllRecords", "modifyAllRecords"}

\* What a normalization may do to `in` to give `out`.
ObjectOnlyAddsImplied(in, out) ==
    /\ \A n \in ObjectFrameFlags : out[n] = in[n]
    /\ \A n \in ObjectFlagNames : in[n] => out[n]
    /\ (\A n \in ObjectImplyingFlags : ~in[n]) => out = in

FieldOnlyAddsImplied(in, out) ==
    /\ out.editable = in.editable
    /\ \A n \in FieldFlagNames : in[n] => out[n]
    /\ ~in.editable => out = in

\* C7: a normalization call only adds implied access: it leaves the object
\* passed in as it was, never changes allowCreate, allowDelete,
\* viewAllRecords, modifyAllRecords or editable, never turns a true flag
\* false, and returns the input's flags when no implying flag is set.
C7_NormalizeOnlyAddsImplied ==
    [][ /\ (objOut = None /\ objOut' # None) =>
            (objIn' = objIn /\ ObjectOnlyAddsImplied(objIn, objOut'[1]))
        /\ (fieldOut = None /\ fieldOut' # None) =>
            (fieldIn' = fieldIn /\ FieldOnlyAddsImplied(fieldIn, fieldOut'[1]))
      ]_vars

\* C7 witness: flags with allowCreate and allowDelete set and no implying
\* flag, and readable-only field flags, have been normalized.
C7_Witness ==
    /\ objOut # None
    /\ objIn.allowCreate /\ objIn.allowDelete
    /\ \A n \in ObjectImplyingFlags : ~objIn[n]
    /\ objOut[1] = objIn
    /\ fieldOut # None
    /\ fieldIn.readable /\ ~fieldIn.editable


(***************************************************************************)
(* Metadata XML (xmlEdit): a PermissionSet or Profile document with its    *)
(* repeated objectPermissions and fieldPermissions blocks. A block is a    *)
(* function from tag names to tag values; on disk every value is text.     *)
(***************************************************************************)
ObjectNames == {"Account", "Contact"}

\* The fields a call may name, each with the object it belongs to.
FieldTargets ==
    {[object |-> "Account", field |-> "Account.Name"],
     [object |-> "Contact", field |-> "Contact.Email"]}

RootKinds == {"PermissionSet", "Profile", "Other"}

KeyTags == {"object", "field"}

\* XMLParser with parseTagValue: the text true/false becomes a boolean, any
\* other text (an API name) stays a string.
ParseTagValue(text) ==
    IF text = "true" THEN TRUE ELSE IF text = "false" THEN FALSE ELSE text

\* XMLBuilder writes a boolean as the text true/false and a string as it is.
BuildTagValue(tag, value) ==
    IF tag \in KeyTags THEN value ELSE IF value THEN "true" ELSE "false"

ParseEntry(e) == [t \in DOMAIN e |-> ParseTagValue(e[t])]

BuildEntry(e) == [t \in DOMAIN e |-> BuildTagValue(t, e[t])]

\* parser.parse(xml): isArray makes both permission blocks lists, an absent
\* block is no entry.
ParseXml(file) ==
    [root |-> file.root,
     body |-> [objectPermissions |->
                   [i \in DOMAIN file.objectPermissions |->
                       ParseEntry(file.objectPermissions[i])],
               fieldPermissions |->
                   [i \in DOMAIN file.fieldPermissions |->
                       ParseEntry(file.fieldPermissions[i])]]]

\* builder.build(parsed)
BuildXml(parsed) ==
    [root |-> parsed.root,
     objectPermissions |->
         [i \in DOMAIN parsed.body.objectPermissions |->
             BuildEntry(parsed.body.objectPermissions[i])],
     fieldPermissions |->
         [i \in DOMAIN parsed.body.fieldPermissions |->
             BuildEntry(parsed.body.fieldPermissions[i])]]

\* list.find((e) => e[tag] === key), as the index of the entry found, 0 for
\* undefined.
FindEntry(list, tag, key) ==
    LET hits == {i \in DOMAIN list : tag \in DOMAIN list[i] /\ list[i][tag] = key}
    IN  IF hits = {} THEN 0 ELSE CHOOSE i \in hits : \A j \in hits : i <= j

\* entry.<flag> = flags.<flag> for every flag; the other tags of the entry stay.
AssignFlags(entry, flags) ==
    [t \in DOMAIN entry \cup DOMAIN flags |->
        IF t \in DOMAIN flags THEN flags[t] ELSE entry[t]]

\* A faulty variant of the upsert: the entry is always pushed, found or not.
UpsertAlwaysPushes(list, tag, key, flags) ==
    Append(list, AssignFlags([t \in {tag} |-> key], flags))

\* A faulty variant of the upsert: the flags are assigned to every entry of the list.
UpsertAssignsAll(list, tag, key, flags) ==
    LET found == FindEntry(list, tag, key)
        pushed == IF found = 0 THEN Append(list, [t \in {tag} |-> key]) ELSE list
    IN  [i \in DOMAIN pushed |-> AssignFlags(pushed[i], flags)]

\* The body shared by ensureObjectPermissionsInRoot (tag object) and
\* ensureFieldPermissionsInRoot (tag field): find the entry by key, push a
\* new one when there is none, assign the flags to it.
Upsert(list, tag, key, flags) ==
    LET found == FindEntry(list, tag, key)
        pushed == IF found = 0 THEN Append(list, [t \in {tag} |-> key]) ELSE list
        at == IF found = 0 THEN Len(pushed) ELSE found
    IN  [pushed EXCEPT ![at] = AssignFlags(pushed[at], flags)]

EnsureObjectPermissionsInRoot(body, objectApiName, flags) ==
    [body EXCEPT !.objectPermissions =
        Upsert(body.objectPermissions, "object", objectApiName, flags)]

EnsureFieldPermissionsInRoot(body, fieldFullName, flags) ==
    [body EXCEPT !.fieldPermissions =
        Upsert(body.fieldPermissions, "field", fieldFullName, flags)]

\* getRoot: the PermissionSet or Profile element, or null.
GetRoot(parsed) ==
    IF parsed.root = "PermissionSet" THEN Some(parsed.body)
    ELSE IF parsed.root = "Profile" THEN Some(parsed.body)
    ELSE None

\* A faulty variant of applyObjectPermissionsToFile that writes the flags as passed.
ApplyObjectNotNormalized(file, objectApiName, flags) ==
    LET parsed == ParseXml(file)
        root == GetRoot(parsed)
    IN  IF root = None
        THEN [threw |-> TRUE, file |-> file]
        ELSE [threw |-> FALSE,
              file |-> BuildXml([parsed EXCEPT !.body =
                  EnsureObjectPermissionsInRoot(root[1], objectApiName, flags)])]

\* applyObjectPermissionsToFile on the content of the file: whether it threw,
\* and the content of the file afterwards.
ApplyObjectPermissionsToFile(file, objectApiName, flags) ==
    LET normalized == NormalizeObjectPermissionFlags(flags)
        parsed == ParseXml(file)
        root == GetRoot(parsed)
    IN  IF root = None
        THEN [threw |-> TRUE, file |-> file]
        ELSE [threw |-> FALSE,
              file |-> BuildXml([parsed EXCEPT !.body =
                  EnsureObjectPermissionsInRoot(root[1], objectApiName, normalized)])]

\* A faulty variant of applyFieldPermissionsToFile that writes both sets
\* of flags as passed.
ApplyFieldNotNormalized(file, objectApiName, fieldFullName, objectFlags, fieldFlags) ==
    LET parsed == ParseXml(file)
        root == GetRoot(parsed)
    IN  IF root = None
        THEN [threw |-> TRUE, file |-> file]
        ELSE [threw |-> FALSE,
              file |-> BuildXml([parsed EXCEPT !.body =
                  EnsureFieldPermissionsInRoot(
                      EnsureObjectPermissionsInRoot(root[1], objectApiName, objectFlags),
                      fieldFullName, fieldFlags)])]

\* applyFieldPermissionsToFile on the content of the file.
ApplyFieldPermissionsToFile(file, objectApiName, fieldFullName, objectFlags, fieldFlags) ==
    LET normalizedObject == NormalizeObjectPermissionFlags(objectFlags)
        normalizedField == NormalizeFieldPermissionFlags(fieldFlags)
        parsed == ParseXml(file)
        root == GetRoot(parsed)
    IN  IF root = None
        THEN [threw |-> TRUE, file |-> file]
        ELSE [threw |-> FALSE,
              file |-> BuildXml([parsed EXCEPT !.body =
                  EnsureFieldPermissionsInRoot(
                      EnsureObjectPermissionsInRoot(root[1], objectApiName, normalizedObject),
                      fieldFullName, normalizedField)])]

(***************************************************************************)
(* SpecXml: calls of applyObjectPermissionsToFile and                      *)
(* applyFieldPermissionsToFile on one metadata file                        *)
(***************************************************************************)
\* Number of permission blocks of the file before the first call.
MaxEntries == 2

\* Number of calls made on the file.
MaxCalls == 2

SeqsUpTo(S, n) == UNION {[1..k -> S] : k \in 0..n}

FlagsGranting(names, granted) == [n \in names |-> n \in granted]

\* The object flags the calls are made with: normalized ones and ones that
\* lack an implied permission.
ObjectFlagInputs ==
    {FlagsGranting(ObjectFlagNames, g) :
        g \in {{"allowRead"}, {"allowEdit", "viewAllRecords"},
               {"modifyAllRecords", "allowDelete"}}}

\* The field flags the calls are made with.
FieldFlagInputs ==
    {FlagsGranting(FieldFlagNames, g) : g \in {{"readable"}, {"editable"}}}

\* objectPermissions blocks as found in metadata files: with only some of
\* the flag tags, or with all of them.
StoredObjectEntries ==
    {[object |-> o, allowRead |-> "true"] : o \in ObjectNames}
    \cup
    {[object |-> o, allowCreate |-> "false", allowDelete |-> "false",
      allowEdit |-> "true", allowRead |-> "true",
      viewAllRecords |-> "false", modifyAllRecords |-> "false"] : o \in {"Account"}}

StoredFieldEntries ==
    {[field |-> t.field, editable |-> "false", readable |-> "true"] : t \in FieldTargets}

\* The files the calls start from. The blocks of a file with another root
\* element are never read.
StoredFiles ==
    {file \in
        [root : {"PermissionSet", "Profile"},
         objectPermissions : SeqsUpTo(StoredObjectEntries, MaxEntries),
         fieldPermissions : SeqsUpTo(StoredFieldEntries, MaxEntries)] :
        Len(file.objectPermissions) + Len(file.fieldPermissions) <= MaxEntries}
    \cup
    {[root |-> "Other", objectPermissions |-> << >>, fieldPermissions |-> << >>]}

NoFieldFlags == FlagsGranting(FieldFlagNames, {})

InitXml ==
    /\ FlagsIdle
    /\ ToggleIdle
    /\ LaterIdle
    /\ disk \in StoredFiles
    /\ before = disk
    /\ last = None
    /\ sameAsPrev = FALSE
    /\ nCalls = 0

Arguments(call) ==
    <<call.fn, call.object, call.field, call.objectFlags, call.fieldFlags>>

Record(call, result) ==
    /\ disk' = result.file
    /\ before' = disk
    /\ last' = Some([call EXCEPT !.threw = result.threw])
    /\ sameAsPrev' = (last # None /\ Arguments(last[1]) = Arguments(call))
    /\ nCalls' = nCalls + 1
    /\ UNCHANGED <<flagVars, toggleVars, laterVars>>

\* applyObjectPermissionsToFile(filePath, objectApiName, flags): the file is
\* read, edited and written as a whole, or the call throws and nothing is
\* written.
ApplyObjectCall ==
    /\ nCalls < MaxCalls
    /\ \E o \in ObjectNames, flags \in ObjectFlagInputs :
        Record([fn |-> "object", object |-> o, field |-> "",
                objectFlags |-> flags, fieldFlags |-> NoFieldFlags, threw |-> FALSE],
               ApplyObjectPermissionsToFile(disk, o, flags))

\* applyFieldPermissionsToFile(filePath, objectApiName, fieldFullName,
\* objectFlags, fieldFlags)
ApplyFieldCall ==
    /\ nCalls < MaxCalls
    /\ \E t \in FieldTargets, oflags \in ObjectFlagInputs,
          fflags \in FieldFlagInputs :
        Record([fn |-> "field", object |-> t.object, field |-> t.field,
                objectFlags |-> oflags, fieldFlags |-> fflags, threw |-> FALSE],
               ApplyFieldPermissionsToFile(disk, t.object, t.field, oflags, fflags))

NextXml ==
    \/ ApplyObjectCall
    \/ ApplyFieldCall

SpecXml == InitXml /\ [][NextXml]_vars

\* The permission blocks of a stored file as a reader of the file sees them.
ObjectEntries(file) == ParseXml(file).body.objectPermissions

FieldEntries(file) == ParseXml(file).body.fieldPermissions

EntriesOf(list, tag, key) ==
    {i \in DOMAIN list : tag \in DOMAIN list[i] /\ list[i][tag] = key}

\* `new` is `old` with the flags of the first entry of `key` replaced by
\* `flags` and nothing else changed.
ReplacedInPlace(old, new, tag, key, flags) ==
    /\ Len(new) = Len(old)
    /\ EntriesOf(new, tag, key) = EntriesOf(old, tag, key)
    /\ \A i \in DOMAIN old \ EntriesOf(old, tag, key) : new[i] = old[i]
    /\ \E i \in EntriesOf(old, tag, key) :
        /\ \A j \in EntriesOf(old, tag, key) : i <= j
        /\ \A t \in DOMAIN flags : new[i][t] = flags[t]
        /\ \A t \in DOMAIN old[i] \ DOMAIN flags : new[i][t] = old[i][t]

\* `new` is `old` with one entry of `key` and `flags` added at the end.
AppendedOne(old, new, tag, key, flags) ==
    /\ Len(new) = Len(old) + 1
    /\ \A i \in DOMAIN old : new[i] = old[i]
    /\ DOMAIN new[Len(new)] = {tag} \cup DOMAIN flags
    /\ new[Len(new)][tag] = key
    /\ \A t \in DOMAIN flags : new[Len(new)][t] = flags[t]

CallMade == last # None /\ ~last[1].threw

\* C1: a call for an object (a field) that has an entry in the file replaces
\* the flags of that entry only: the number of objectPermissions
\* (fieldPermissions) entries and the entries of that key stay the same, and
\* every entry of another object (field) is as it was.
C1_PresentKeyReplacedInPlace ==
    CallMade =>
        /\ EntriesOf(ObjectEntries(before), "object", last[1].object) # {} =>
            ReplacedInPlace(ObjectEntries(before), ObjectEntries(disk), "object",
                last[1].object, NormalizeObjectPermissionFlags(last[1].objectFlags))
        /\ (last[1].fn = "field"
              /\ EntriesOf(FieldEntries(before), "field", last[1].field) # {}) =>
            ReplacedInPlace(FieldEntries(before), FieldEntries(disk), "field",
                last[1].field, NormalizeFieldPermissionFlags(last[1].fieldFlags))

\* C1 witness: an object call has changed the entry of its object in a file
\* that also holds an entry of another object.
C1_Witness ==
    /\ CallMade
    /\ last[1].fn = "object"
    /\ EntriesOf(ObjectEntries(before), "object", last[1].object) # {}
    /\ \E i \in DOMAIN ObjectEntries(before) :
        ObjectEntries(before)[i].object # last[1].object
    /\ disk # before

\* C2 as stated: a call for an object (a field) with no entry in the file
\* appends exactly one entry with that key and the flags given to the call,
\* and leaves the entries that were there unchanged.
C2_AbsentKeyAppendsGivenFlags ==
    CallMade =>
        /\ EntriesOf(ObjectEntries(before), "object", last[1].object) = {} =>
            AppendedOne(ObjectEntries(before), ObjectEntries(disk), "object",
                last[1].object, last[1].objectFlags)
        /\ (last[1].fn = "field"
              /\ EntriesOf(FieldEntries(before), "field", last[1].field) = {}) =>
            AppendedOne(FieldEntries(before), FieldEntries(disk), "field",
                last[1].field, last[1].fieldFlags)

\* C2 amended: a call for an object (a field) with no entry in the file
\* appends exactly one entry with that key and the normalized form of the
\* flags given to the call, and leaves the entries that were there unchanged.
C2_AbsentKeyAppendsNormalized ==
    CallMade =>
        /\ EntriesOf(ObjectEntries(before), "object", last[1].object) = {} =>
            AppendedOne(ObjectEntries(before), ObjectEntries(disk), "object",
                last[1].object, NormalizeObjectPermissionFlags(last[1].objectFlags))
        /\ (last[1].fn = "field"
              /\ EntriesOf(FieldEntries(before), "field", last[1].field) = {}) =>
            AppendedOne(FieldEntries(before), FieldEntries(disk), "field",
                last[1].field, NormalizeFieldPermissionFlags(last[1].fieldFlags))

\* C2 witness: an object call with flags that lack an implied permission has
\* appended an entry to a file that held an entry of another object.
C2_Witness ==
    /\ CallMade
    /\ last[1].fn = "object"
    /\ EntriesOf(ObjectEntries(before), "object", last[1].object) = {}
    /\ ObjectEntries(before) # << >>
    /\ Len(ObjectEntries(disk)) = Len(ObjectEntries(before)) + 1
    /\ NormalizeObjectPermissionFlags(last[1].objectFlags) # last[1].objectFlags

\* C3: the upsert is idempotent: a call made with the arguments of the call
\* before it leaves the file as that call left it.
C3_UpsertIdempotent ==
    (last # None /\ sameAsPrev) => disk = before

\* C3 witness: a field call has been made twice in a row with flags that
\* lack an implied permission, and did not throw.
C3_Witness ==
    /\ CallMade
    /\ sameAsPrev
    /\ last[1].fn = "field"
    /\ last[1].fieldFlags.editable
    /\ FieldEntries(disk) # << >>

\* The keys of the entries of a list
KeysOf(list, tag) == { list[i][tag] : i \in { j \in DOMAIN list : tag \in DOMAIN list[j] } }

\* No object and no field has more than one entry in the file
KeysUnique(file) ==
    /\ \A o \in KeysOf(ObjectEntries(file), "object") :
           Cardinality(EntriesOf(ObjectEntries(file), "object", o)) = 1
    /\ \A f \in KeysOf(FieldEntries(file), "field") :
           Cardinality(EntriesOf(FieldEntries(file), "field", f)) = 1

\* C27: a call on a file in which no object and no field has two entries
\* leaves a file in which none has; so the keys stay unique over every
\* sequence of calls from such a file.
C27_KeysStayUnique ==
    KeysUnique(before) => KeysUnique(disk)

\* C27 witness: the second of two calls was a field call for an object with
\* an entry and a field with none, on a file with unique keys.
C27_Witness ==
    /\ CallMade
    /\ nCalls = 2
    /\ last[1].fn = "field"
    /\ KeysUnique(before)
    /\ EntriesOf(ObjectEntries(before), "object", last[1].object) # {}
    /\ EntriesOf(FieldEntries(before), "field", last[1].field) = {}
    /\ Len(ObjectEntries(disk)) = 2
    /\ Len(FieldEntries(disk)) = 1

\* The entry a call wrote: the first entry of its key in the file
WrittenEntry(list, tag, key) ==
    list[CHOOSE i \in EntriesOf(list, tag, key) :
             \A j \in EntriesOf(list, tag, key) : i <= j]

\* C28: the objectPermissions entry a call has written grants what its
\* flags imply (modifyAllRecords read and edit, viewAllRecords read, edit
\* read), and the fieldPermissions entry a field call has written is
\* readable when it is editable, whatever flags were passed.
C28_WrittenEntriesNormalized ==
    CallMade =>
        /\ ObjectRulesHold(WrittenEntry(ObjectEntries(disk), "object", last[1].object))
        /\ last[1].fn = "field" =>
               FieldRulesHold(WrittenEntry(FieldEntries(disk), "field", last[1].field))

\* C28 witness: a field call passed view-all without read and editable
\* without readable, and the file holds both entries with read access.
C28_Witness ==
    /\ CallMade
    /\ last[1].fn = "field"
    /\ last[1].objectFlags.viewAllRecords /\ ~last[1].objectFlags.allowRead
    /\ last[1].fieldFlags.editable /\ ~last[1].fieldFlags.readable
    /\ WrittenEntry(ObjectEntries(disk), "object", last[1].object).allowRead
    /\ WrittenEntry(FieldEntries(disk), "field", last[1].field).readable

(***************************************************************************)
(* Target resolution (resolve): the metadata file of a profile or          *)
(* permission set, found in the workspace or retrieved from the org.       *)
(* A path is its directory, the target's name and the file suffix.         *)
(***************************************************************************)
CamelSuffix == ".permissionSet-meta.xml"

LowerSuffix == ".permissionset-meta.xml"

ProfileSuffix == ".profile-meta.xml"

Path(dir, name, suffix) == [dir |-> dir, name |-> name, suffix |-> suffix]

\* path.dirname
Dirname(path) == path.dir

\* The search of the earlier resolve.ts: one pattern per kind, the
\* permission set pattern in camel case only.
FindInWorkspaceCamelOnly(workspace, kind, name) ==
    LET pattern == IF kind = "profile"
                   THEN Path("profiles", name, ProfileSuffix)
                   ELSE Path("permissionSets", name, CamelSuffix)
    IN  IF pattern \in workspace THEN Some(pattern) ELSE None

\* findInWorkspace over the set of paths that exist: the first pattern with
\* a file, null when none has one.
FindInWorkspace(workspace, kind, name) ==
    IF kind = "profile"
    THEN IF Path("profiles", name, ProfileSuffix) \in workspace
         THEN Some(Path("profiles", name, ProfileSuffix))
         ELSE None
    ELSE IF Path("permissionSets", name, CamelSuffix) \in workspace
         THEN Some(Path("permissionSets", name, CamelSuffix))
    ELSE IF Path("permissionSets", name, LowerSuffix) \in workspace
         THEN Some(Path("permissionSets", name, LowerSuffix))
    ELSE IF Path("permissionsets", name, LowerSuffix) \in workspace
         THEN Some(Path("permissionsets", name, LowerSuffix))
    ELSE None

\* resolveMetadataFile up to its return or its call of retrieveFromOrg:
\* the path found when it exists, None when the org is asked.
ResolveLocally(workspace, kind, name) ==
    LET found == FindInWorkspace(workspace, kind, name)
    IN  IF found # None /\ found[1] \in workspace THEN found ELSE None

\* The places the file of a target may be stored at, by the CLI or by hand.
PlacesOf(target) ==
    IF target.kind = "profile"
    THEN {Path("profiles", target.name, ProfileSuffix)}
    ELSE {Path(d, target.name, x) :
            d \in {"permissionSets", "permissionsets"}, x \in {CamelSuffix, LowerSuffix}}

\* files.find((f) => f.filePath.endsWith(suffix)) of retrieveFromOrg: the
\* places a listed file can have.
ListedPlacesOf(target) ==
    {p \in PlacesOf(target) :
        p.suffix = IF target.kind = "profile" THEN ProfileSuffix ELSE CamelSuffix}

(***************************************************************************)
(* Spec: one run of the toggle command (runToggleObjectFieldPermissions)   *)
(***************************************************************************)
\* Number of profiles and permission sets offered as targets.
NumTargets == 2

Candidates ==
    <<[kind |-> "permissionSet", name |-> "Admin"],
      [kind |-> "permissionSet", name |-> "Sales"],
      [kind |-> "profile", name |-> "Standard"]>>

\* targetItems of the quick pick
TargetItems ==
    SubSeq(Candidates, 1, IF NumTargets < Len(Candidates) THEN NumTargets ELSE Len(Candidates))

\* The focused metadata file is of this object, or of this field of it.
FocusedObject == "Account"

FocusedField == "Account.Name"

\* The metadata file of a target as the org or the workspace holds it.
SupportedFile(target) ==
    [root |-> IF target.kind = "profile" THEN "Profile" ELSE "PermissionSet",
     objectPermissions |-> <<[object |-> FocusedObject, allowRead |-> "true"]>>,
     fieldPermissions |-> << >>]

\* A file at the place of a target that is no PermissionSet or Profile document.
UnsupportedFile ==
    [root |-> "Other", objectPermissions |-> << >>, fieldPermissions |-> << >>]

\* Per target: no file, or one file at one of its places.
Placements ==
    {pl \in [DOMAIN TargetItems ->
                {None} \cup {Some([path |-> p, content |-> c]) :
                    p \in UNION {PlacesOf(TargetItems[i]) : i \in DOMAIN TargetItems},
                    c \in {UnsupportedFile} \cup
                          {SupportedFile(TargetItems[i]) : i \in DOMAIN TargetItems}}] :
        \A i \in DOMAIN TargetItems :
            pl[i] # None =>
                /\ pl[i][1].path \in PlacesOf(TargetItems[i])
                /\ pl[i][1].content \in {UnsupportedFile, SupportedFile(TargetItems[i])}}

FilesOf(pl) ==
    LET present == {i \in DOMAIN pl : pl[i] # None}
    IN  [p \in {pl[i][1].path : i \in present} |->
            pl[CHOOSE i \in present : pl[i][1].path = p][1].content]

WriteFile(fs, path, content) ==
    [q \in DOMAIN fs \cup {path} |-> IF q = path THEN content ELSE fs[q]]

\* The picks showQuickPick(canPickMany) can return: the items ticked, in
\* the order of the list, at least one.
Selections ==
    {sel \in SeqsUpTo(DOMAIN TargetItems, Len(TargetItems)) :
        /\ sel # << >>
        /\ \A a, b \in DOMAIN sel : a < b => sel[a] < sel[b]}

ObjectRecordFields ==
    {"PermissionsCreate", "PermissionsDelete", "PermissionsEdit", "PermissionsRead",
     "PermissionsViewAllRecords", "PermissionsModifyAllRecords"}

\* The first rows an ObjectPermissions query returns.
QueryRows ==
    {FlagsGranting(ObjectRecordFields, g) :
        g \in {{"PermissionsRead"}, {"PermissionsCreate"}, {"PermissionsEdit"}}}

\* objectPermissionsRecordToFlags
ObjectPermissionsRecordToFlags(record) ==
    [allowCreate |-> record.PermissionsCreate = TRUE,
     allowDelete |-> record.PermissionsDelete = TRUE,
     allowEdit |-> record.PermissionsEdit = TRUE,
     allowRead |-> record.PermissionsRead = TRUE,
     viewAllRecords |-> record.PermissionsViewAllRecords = TRUE,
     modifyAllRecords |-> record.PermissionsModifyAllRecords = TRUE]

\* Lines 233-242: objectFlags of the field branch, from the first row of the
\* query or, without rows, read access only.
ObjectFlagsForField(rows) ==
    IF rows # None
    THEN ObjectPermissionsRecordToFlags(rows[1])
    ELSE [FlagsGranting(ObjectFlagNames, {"allowRead"}) EXCEPT !.allowRead = TRUE]

InitToggle ==
    /\ FlagsIdle
    /\ XmlIdle
    /\ LaterIdle
    /\ tpc = "start"
    /\ focused = "none"
    /\ selected = << >>
    /\ files \in {FilesOf(pl) : pl \in Placements}
    /\ files0 = files
    /\ existing = None
    /\ flagsPicked = None
    /\ tstate = << >>
    /\ resolved = << >>
    /\ retrieveStarted = {}
    /\ errors = {}
    /\ filesToDeploy = << >>
    /\ deployLog = << >>
    /\ ending = "running"

TargetAt(i) == TargetItems[selected[i]]

Finished(st) == st \in {"unresolved", "editFailed", "applied"}

Finish(how) ==
    /\ tpc' = "done"
    /\ ending' = how

\* Lines 44-99: the checks before the target pick. A failed check shows an
\* error (the missing workspace folder shows none) and returns.
Start ==
    /\ tpc = "start"
    /\ \E check \in {"notSfdxProject", "notPermissionFile", "unparsablePath",
                     "noWorkspaceFolder", "noTargets", "ok"} :
        IF check = "ok"
        THEN /\ \E kind \in {"object", "field"} : focused' = kind
             /\ tpc' = "pickTargets"
             /\ UNCHANGED <<errors, ending>>
        ELSE /\ errors' = IF check = "noWorkspaceFolder" THEN errors
                          ELSE errors \cup {<<0, check>>}
             /\ Finish("failedCheck")
             /\ UNCHANGED focused
    /\ UNCHANGED <<selected, files, files0, existing, flagsPicked, tstate, resolved,
                   retrieveStarted, filesToDeploy, deployLog>>
    /\ UNCHANGED <<flagVars, xmlVars, laterVars>>

\* Lines 134-139: the target pick; a dismissed or empty pick returns.
PickTargets ==
    /\ tpc = "pickTargets"
    /\ \/ /\ Finish("cancelled")
          /\ UNCHANGED <<selected, tstate, resolved>>
       \/ /\ \E sel \in Selections :
                /\ selected' = sel
                /\ tstate' = [i \in DOMAIN sel |-> "pending"]
                /\ resolved' = [i \in DOMAIN sel |-> None]
          /\ tpc' = "resolveOrg"
          /\ UNCHANGED ending
    /\ UNCHANGED <<focused, files, files0, existing, flagsPicked, retrieveStarted,
                   errors, filesToDeploy, deployLog>>
    /\ UNCHANGED <<flagVars, xmlVars, laterVars>>

\* Lines 152-161: getDefaultOrgContext; a rejection shows an error and returns.
ResolveOrg ==
    /\ tpc = "resolveOrg"
    /\ \/ /\ errors' = errors \cup {<<0, "noDefaultOrg">>}
          /\ Finish("orgError")
       \/ /\ tpc' = "query"
          /\ UNCHANGED <<errors, ending>>
    /\ UNCHANGED <<focused, selected, files, files0, existing, flagsPicked, tstate,
                   resolved, retrieveStarted, filesToDeploy, deployLog>>
    /\ UNCHANGED <<flagVars, xmlVars, laterVars>>

\* Lines 165 and 226-232: the queries. They resolve to no rows when there is
\* no parent id or the CLI fails. The object branch and the field query use
\* the rows for the ticks of the next pick only; the field branch keeps the
\* first ObjectPermissions row.
Query ==
    /\ tpc = "query"
    /\ IF focused = "field"
       THEN \E rows \in {None} \cup {Some(r) : r \in QueryRows} : existing' = rows
       ELSE existing' = None
    /\ tpc' = "pickPerms"
    /\ UNCHANGED <<focused, selected, files, files0, flagsPicked, tstate, resolved,
                   retrieveStarted, errors, filesToDeploy, deployLog, ending>>
    /\ UNCHANGED <<flagVars, xmlVars, laterVars>>

\* Lines 183-197 and 249-261: the permission pick, normalized; a dismissed
\* pick returns.
PickPerms ==
    /\ tpc = "pickPerms"
    /\ \/ /\ Finish("cancelled")
          /\ UNCHANGED flagsPicked
       \/ /\ IF focused = "object"
             THEN \E raw \in ObjectFlagInputs :
                    flagsPicked' = Some(NormalizeObjectPermissionFlags(raw))
             ELSE \E raw \in FieldFlagInputs :
                    flagsPicked' = Some(NormalizeFieldPermissionFlags(raw))
          /\ tpc' = "loop"
          /\ UNCHANGED ending
    /\ UNCHANGED <<focused, selected, files, files0, existing, tstate, resolved,
                   retrieveStarted, errors, filesToDeploy, deployLog>>
    /\ UNCHANGED <<flagVars, xmlVars, laterVars>>

\* A faulty variant of the loop: the iterations are started without awaiting the one
\* before (the targets mapped to promises).
LoopReachesWithoutAwait(i) == TRUE

\* for (const target of selectedTargets) { await ...; ... }: the iteration of
\* target i starts when every iteration before it has ended.
LoopReaches(i) == \A j \in 1..(i - 1) : Finished(tstate[j])

\* A faulty variant of the loop: the first failure ends it (return for continue).
LoopEndsAtFailure ==
    \/ \A i \in DOMAIN tstate : Finished(tstate[i])
    \/ \E i \in DOMAIN tstate : tstate[i] \in {"unresolved", "editFailed"}

\* The loop is left after the iteration of the last target.
LoopDone == \A i \in DOMAIN tstate : Finished(tstate[i])

\* Lines 202 and 266, resolveMetadataFile up to its first await: the search
\* of the workspace, and the start of the CLI retrieve when nothing is found.
ResolveTarget ==
    /\ tpc = "loop"
    /\ \E i \in DOMAIN tstate :
        /\ tstate[i] = "pending"
        /\ LoopReaches(i)
        /\ LET found == ResolveLocally(DOMAIN files, TargetAt(i).kind, TargetAt(i).name)
           IN  IF found # None
               THEN /\ resolved' = [resolved EXCEPT ![i] = found]
                    /\ tstate' = [tstate EXCEPT ![i] = "resolved"]
                    /\ UNCHANGED retrieveStarted
               ELSE /\ retrieveStarted' = retrieveStarted \cup {i}
                    /\ tstate' = [tstate EXCEPT ![i] = "retrieving"]
                    /\ UNCHANGED resolved
    /\ UNCHANGED <<tpc, focused, selected, files, files0, existing, flagsPicked,
                   errors, filesToDeploy, deployLog, ending>>
    /\ UNCHANGED <<flagVars, xmlVars, laterVars>>

\* The target has no file: the error message of lines 203-206 and 267-270.
Unresolved(i) ==
    /\ tstate' = [tstate EXCEPT ![i] = "unresolved"]
    /\ errors' = errors \cup {<<i, "notFoundOrRetrieved">>}
    /\ UNCHANGED resolved

ResolvedAt(i, path) ==
    /\ tstate' = [tstate EXCEPT ![i] = "resolved"]
    /\ resolved' = [resolved EXCEPT ![i] = Some(path)]
    /\ UNCHANGED errors

\* retrieveFromOrg after the CLI has ended:
\*   the CLI threw, gave no JSON or a nonzero status: null;
\*   it stored the file and listed it with the suffix looked for: that path
\*   joined to the workspace root, which is the file or, for a path that was
\*   absolute already, no file at all;
\*   it stored the file and listed nothing with that suffix: findInWorkspace.
RetrieveDone ==
    /\ tpc = "loop"
    /\ \E i \in DOMAIN tstate :
        /\ tstate[i] = "retrieving"
        /\ \/ /\ Unresolved(i)
              /\ UNCHANGED files
           \/ \E p \in ListedPlacesOf(TargetAt(i)) :
                /\ files' = WriteFile(files, p, SupportedFile(TargetAt(i)))
                /\ \/ ResolvedAt(i, p)
                   \/ ResolvedAt(i, Path("unresolvable", p.name, p.suffix))
           \/ \E p \in PlacesOf(TargetAt(i)) :
                /\ files' = WriteFile(files, p, SupportedFile(TargetAt(i)))
                /\ LET found == FindInWorkspace(DOMAIN files', TargetAt(i).kind,
                                                TargetAt(i).name)
                   IN  IF found # None THEN ResolvedAt(i, found[1]) ELSE Unresolved(i)
    /\ UNCHANGED <<tpc, focused, selected, files0, existing, flagsPicked,
                   retrieveStarted, filesToDeploy, deployLog, ending>>
    /\ UNCHANGED <<flagVars, xmlVars, laterVars>>

\* The call of applyObjectPermissionsToFile or applyFieldPermissionsToFile of
\* the run on the content of a file.
ApplyPicked(file) ==
    IF focused = "object"
    THEN ApplyObjectPermissionsToFile(file, FocusedObject, flagsPicked[1])
    ELSE ApplyFieldPermissionsToFile(file, FocusedObject, FocusedField,
                                     ObjectFlagsForField(existing), flagsPicked[1])

\* Lines 207-212 and 271-282: the edit of the resolved file. A file that
\* cannot be read or has no supported root makes the call throw; the error
\* is shown and the loop goes on.
ApplyTarget ==
    /\ tpc = "loop"
    /\ \E i \in DOMAIN tstate :
        /\ tstate[i] = "resolved"
        /\ LET path == resolved[i][1]
               threw == path \notin DOMAIN files \/ ApplyPicked(files[path]).threw
           IN  IF threw
               THEN /\ tstate' = [tstate EXCEPT ![i] = "editFailed"]
                    /\ errors' = errors \cup {<<i, "failedToUpdate">>}
                    /\ UNCHANGED <<files, filesToDeploy>>
               ELSE /\ tstate' = [tstate EXCEPT ![i] = "applied"]
                    /\ files' = [files EXCEPT ![path] = ApplyPicked(files[path]).file]
                    /\ filesToDeploy' = Append(filesToDeploy, path)
                    /\ UNCHANGED errors
    /\ UNCHANGED <<tpc, focused, selected, files0, existing, flagsPicked, resolved,
                   retrieveStarted, deployLog, ending>>
    /\ UNCHANGED <<flagVars, xmlVars, laterVars>>

\* Lines 214 and 284: after the loop, the deploy when a file was updated.
LoopEnd ==
    /\ tpc = "loop"
    /\ LoopDone
    /\ IF filesToDeploy = << >>
       THEN Finish("completed")
       ELSE tpc' = "deploy" /\ UNCHANGED ending
    /\ UNCHANGED <<focused, selected, files, files0, existing, flagsPicked, tstate,
                   resolved, retrieveStarted, errors, filesToDeploy, deployLog>>
    /\ UNCHANGED <<flagVars, xmlVars, laterVars>>

RECURSIVE Distinct(_)
\* [...new Set(seq)]: the elements in the order of their first occurrence
Distinct(seq) ==
    IF seq = << >> THEN << >>
    ELSE LET front == Distinct(SubSeq(seq, 1, Len(seq) - 1))
             x == seq[Len(seq)]
         IN  IF \E k \in DOMAIN front : front[k] = x THEN front ELSE Append(front, x)

\* A faulty variant of sourceDirs: the directory of every file, repeated
\* as often as it holds a file.
SourceDirsPerFile(paths) == [k \in DOMAIN paths |-> Dirname(paths[k])]

\* sourceDirs of deployMetadataFiles
SourceDirs(paths) == Distinct([k \in DOMAIN paths |-> Dirname(paths[k])])

\* deployMetadataFiles: one `sf project deploy start --source-dir` per
\* directory, each awaited; a failed deploy shows an error and the next
\* directory is deployed. After the last one the run goes on to
\* maybeRetrieveAfterDeploy when none failed.
DeployDir ==
    /\ tpc = "deploy"
    /\ LET dirs == SourceDirs(filesToDeploy)
           k == Len(deployLog) + 1
       IN  /\ k <= Len(dirs)
           /\ \E ok \in BOOLEAN :
                /\ deployLog' = Append(deployLog, [dir |-> dirs[k], ok |-> ok])
                /\ errors' = IF ok THEN errors ELSE errors \cup {<<0, "deployFailed">>}
           /\ IF k < Len(dirs)
              THEN UNCHANGED <<tpc, ending>>
              ELSE IF \A j \in DOMAIN deployLog' : deployLog'[j].ok
                   THEN tpc' = "afterDeploy" /\ UNCHANGED ending
                   ELSE Finish("completed")
    /\ UNCHANGED <<focused, selected, files, files0, existing, flagsPicked, tstate,
                   resolved, retrieveStarted, filesToDeploy>>
    /\ UNCHANGED <<flagVars, xmlVars, laterVars>>

\* maybeRetrieveAfterDeploy: by the setting or the pick, the metadata of the
\* selected targets is retrieved again or not. The org answers with what was
\* deployed to it, so the updated files keep their content.
MaybeRetrieveAfterDeploy ==
    /\ tpc = "afterDeploy"
    /\ \E how \in {"notRetrieved", "retrieved", "retrieveFailed"} :
        errors' = IF how = "retrieveFailed"
                  THEN errors \cup {<<0, "retrieveFailed">>} ELSE errors
    /\ Finish("completed")
    /\ UNCHANGED <<focused, selected, files, files0, existing, flagsPicked, tstate,
                   resolved, retrieveStarted, filesToDeploy, deployLog>>
    /\ UNCHANGED <<flagVars, xmlVars, laterVars>>

Next ==
    \/ Start
    \/ PickTargets
    \/ ResolveOrg
    \/ Query
    \/ PickPerms
    \/ ResolveTarget
    \/ RetrieveDone
    \/ ApplyTarget
    \/ LoopEnd
    \/ DeployDir
    \/ MaybeRetrieveAfterDeploy

Spec == InitToggle /\ [][Next]_vars

\* The file of selected target i has been written by the loop.
Written(i) == tstate[i] = "applied"

\* C4: after the field toggle has written the file of a target, the file
\* holds an objectPermissions entry of the field's object with allowRead
\* true, whatever the ObjectPermissions query returned.
C4_FieldToggleGrantsRead ==
    \A i \in DOMAIN tstate :
        (focused = "field" /\ Written(i)) =>
            \E k \in DOMAIN ObjectEntries(files[resolved[i][1]]) :
                /\ ObjectEntries(files[resolved[i][1]])[k].object = FocusedObject
                /\ ObjectEntries(files[resolved[i][1]])[k].allowRead = TRUE

Failed(i) == tstate[i] \in {"unresolved", "editFailed"}

\* The files of the workspace at the start that findInWorkspace looks for.
ConventionalFiles(target) ==
    DOMAIN files0 \cap
        (IF target.kind = "profile"
         THEN {Path("profiles", target.name, ProfileSuffix)}
         ELSE {Path("permissionSets", target.name, CamelSuffix),
               Path("permissionSets", target.name, LowerSuffix),
               Path("permissionsets", target.name, LowerSuffix)})

\* The target had a file with a supported root in the workspace at the start.
GoodFromStart(i) ==
    \E p \in ConventionalFiles(TargetAt(i)) : files0[p].root \in {"PermissionSet", "Profile"}

Deployed(path) == \E k \in DOMAIN deployLog : deployLog[k].dir = Dirname(path)

LoopLeft == tpc \in {"deploy", "afterDeploy"} \/ ending = "completed"

\* C8: a failure of one selected target is reported for that target and ends
\* the iteration of that target only: when the run has completed, every
\* target has been tried, an error names target i exactly when target i
\* failed, every target that resolved and was edited (among them each target
\* with a supported file in the workspace) is in filesToDeploy with its file
\* changed, and a deploy was issued for the directory of each of them.
C8_FailureEndsOneTargetOnly ==
    /\ LoopLeft =>
        \A i \in DOMAIN tstate :
            /\ Finished(tstate[i])
            /\ GoodFromStart(i) => Written(i)
            /\ Failed(i) <=> (\E m \in {"notFoundOrRetrieved", "failedToUpdate"} :
                                 <<i, m>> \in errors)
            /\ Written(i) =>
                (\E k \in DOMAIN filesToDeploy : filesToDeploy[k] = resolved[i][1])
    /\ ending = "completed" =>
        \A i \in DOMAIN tstate : Written(i) => Deployed(resolved[i][1])

\* C8 witness: a completed run in which the first target failed and a later
\* target was updated and deployed.
C8_Witness ==
    /\ ending = "completed"
    /\ Len(tstate) >= 2
    /\ Failed(1)
    /\ Written(2)
    /\ Deployed(resolved[2][1])
    /\ files[resolved[2][1]] # SupportedFile(TargetAt(2))

InFlight == {i \in DOMAIN tstate : tstate[i] \in {"retrieving", "resolved"}}

\* C9: the selected targets are processed one after the other in selection
\* order: a target is started only when every target before it has ended,
\* so at most one target is being resolved, retrieved or edited at a time.
C9_TargetsSequential ==
    /\ \A i, j \in DOMAIN tstate :
        (i < j /\ tstate[j] # "pending") => Finished(tstate[i])
    /\ Cardinality(InFlight) <= 1

\* C9 witness: the second target is being retrieved after the first one was
\* retrieved and edited.
C9_Witness ==
    /\ Len(tstate) >= 2
    /\ 1 \in retrieveStarted
    /\ Written(1)
    /\ tstate[2] = "retrieving"

\* C10: resolveMetadataFile searches the workspace first: a retrieve is
\* started for a target only when the workspace holds no file of the target
\* at a place the search looks at, and when it holds one, that path is the
\* result and no retrieve is started.
C10_RetrieveOnlyWhenNotFound ==
    \A i \in DOMAIN tstate :
        /\ i \in retrieveStarted => ConventionalFiles(TargetAt(i)) = {}
        /\ (tstate[i] # "pending" /\ ConventionalFiles(TargetAt(i)) # {}) =>
            /\ i \notin retrieveStarted
            /\ resolved[i] # None
            /\ resolved[i][1] \in ConventionalFiles(TargetAt(i))

\* C10 witness: one target was resolved to its lower-case file in the
\* workspace without a retrieve, and a retrieve was started for another
\* target, which has no file in the workspace.
C10_Witness ==
    \E i, j \in DOMAIN tstate :
        /\ resolved[i] # None
        /\ resolved[i][1].suffix = LowerSuffix
        /\ i \notin retrieveStarted
        /\ resolved[i][1] \in DOMAIN files0
        /\ j \in retrieveStarted
        /\ ConventionalFiles(TargetAt(j)) = {}

\* The directories that hold a file the run has updated
UpdatedDirs ==
    { Dirname(resolved[i][1]) : i \in { j \in DOMAIN tstate : tstate[j] = "applied" } }

\* The directories a deploy was issued for
DeployedDirs == { deployLog[k].dir : k \in DOMAIN deployLog }

\* deployMetadataFiles has returned
DeployOver == tpc = "afterDeploy" \/ ending = "completed"

\* C29: a deploy is issued only when every selected target has been
\* processed, none is issued when no file was updated, no directory is
\* deployed twice, and when the deploys are over one was issued for each
\* directory holding an updated file and for no other.
C29_OneDeployPerUpdatedDirectory ==
    /\ deployLog # << >> => (\A i \in DOMAIN tstate : Finished(tstate[i]))
    /\ (\A i \in DOMAIN tstate : tstate[i] # "applied") => deployLog = << >>
    /\ Cardinality(DeployedDirs) = Len(deployLog)
    /\ DeployedDirs \subseteq UpdatedDirs
    /\ DeployOver => DeployedDirs = UpdatedDirs

\* C29 witness: two files of one directory were updated and the run
\* completed with one deploy.
C29_Witness ==
    /\ ending = "completed"
    /\ Len(tstate) = 2
    /\ \A i \in DOMAIN tstate : tstate[i] = "applied"
    /\ Len(filesToDeploy) = 2
    /\ Len(deployLog) = 1

\* A run whose two updated files lie in two directories has completed with
\* two deploys, the first of which failed.
TwoDirectoriesDeployed ==
    /\ ending = "completed"
    /\ Len(filesToDeploy) = 2
    /\ Len(deployLog) = 2
    /\ ~deployLog[1].ok

(***************************************************************************)
(* SpecName: labelToDeveloperName (developerName.ts). A string is the      *)
(* sequence of its characters (UTF-16 code units).                         *)
(***************************************************************************)
\* Longest label tried.
MaxLabelLen == 3

\* The characters of the labels: letters, a digit, the underscore, a space
\* and a letter outside ASCII.
LabelChars == {"a", "Z", "7", "_", " ", "é"}

\* The class [a-zA-Z0-9] among the characters that occur
AsciiAlnum == {"a", "x", "Z", "7"}

\* The class \d
AsciiDigits == {"7"}

\* The arguments: strings, and the values that are no string.
Labels ==
    {[type |-> "string", chars |-> c] : c \in SeqsUpTo(LabelChars, MaxLabelLen)}
    \cup {[type |-> t, chars |-> << >>] : t \in {"undefined", "null", "number"}}

\* A faulty variant of the replacement: letters of any alphabet are kept.
ReplaceNonLetters(chars) ==
    [i \in DOMAIN chars |->
        IF chars[i] \in AsciiAlnum \cup {"é"} THEN chars[i] ELSE "_"]

\* .replace(/[^a-zA-Z0-9]/g, '_')
ReplaceNonAlnum(chars) ==
    [i \in DOMAIN chars |-> IF chars[i] \in AsciiAlnum THEN chars[i] ELSE "_"]

RECURSIVE CollapsePairs(_)
\* A faulty variant of the collapse: .replace(/__/g, '_')
CollapsePairs(chars) ==
    IF Len(chars) < 2 THEN chars
    ELSE IF chars[1] = "_" /\ chars[2] = "_"
         THEN <<"_">> \o CollapsePairs(SubSeq(chars, 3, Len(chars)))
         ELSE <<chars[1]>> \o CollapsePairs(Tail(chars))

RECURSIVE CollapseUnderscores(_)
\* .replace(/_+/g, '_'): every run of underscores becomes one underscore
CollapseUnderscores(chars) ==
    IF Len(chars) < 2 THEN chars
    ELSE IF chars[1] = "_" /\ chars[2] = "_"
         THEN CollapseUnderscores(Tail(chars))
         ELSE <<chars[1]>> \o CollapseUnderscores(Tail(chars))

\* A faulty variant of the test: /^\d+$/
AllDigits(chars) ==
    chars # << >> /\ \A i \in DOMAIN chars : chars[i] \in AsciiDigits

\* /^\d/.test(name)
StartsWithDigit(chars) == chars # << >> /\ chars[1] \in AsciiDigits

RECURSIVE TrimUnderscores(_)
TrimUnderscores(chars) ==
    IF chars = << >> THEN chars
    ELSE IF chars[1] = "_" THEN TrimUnderscores(Tail(chars))
    ELSE IF chars[Len(chars)] = "_" THEN TrimUnderscores(SubSeq(chars, 1, Len(chars) - 1))
    ELSE chars

\* A faulty variant of labelToDeveloperName that trims the underscores at
\* the two ends of the name.
LabelToDeveloperNameTrimmed(arg) ==
    IF arg.type # "string" THEN << >>
    ELSE LET name == TrimUnderscores(CollapseUnderscores(ReplaceNonAlnum(arg.chars)))
         IN  IF StartsWithDigit(name) THEN <<"x">> \o name ELSE name

\* labelToDeveloperName
LabelToDeveloperName(arg) ==
    IF arg.type # "string" THEN << >>
    ELSE LET name == CollapseUnderscores(ReplaceNonAlnum(arg.chars))
         IN  IF StartsWithDigit(name) THEN <<"x">> \o name ELSE name

InitName ==
    /\ FlagsIdle
    /\ XmlIdle
    /\ ToggleIdle
    /\ CliIdle
    /\ RefreshIdle
    /\ TimerIdle
    /\ FinalIdle
    /\ label \in Labels
    /\ devName = None

\* One call of labelToDeveloperName(label)
LabelToDeveloperNameCall ==
    /\ label # None
    /\ devName = None
    /\ devName' = Some(LabelToDeveloperName(label))
    /\ UNCHANGED label
    /\ UNCHANGED <<flagVars, xmlVars, toggleVars, cliVars, refreshVars, timerVars,
                   finalVars>>

NextName == LabelToDeveloperNameCall

SpecName == InitName /\ [][NextName]_vars

\* The characters of a string that are in a class, in their order.
Only(chars, class) == SelectSeq(chars, LAMBDA c : c \in class)

\* The number of maximal runs of characters outside [A-Za-z0-9].
RunsOutsideAlnum(chars) ==
    Cardinality({i \in DOMAIN chars :
        /\ chars[i] \notin AsciiAlnum
        /\ i = 1 \/ chars[i - 1] \in AsciiAlnum})

Returned == devName[1]

\* The label is a string whose first character is a digit.
LeadingDigit ==
    label.type = "string" /\ label.chars # << >> /\ label.chars[1] \in AsciiDigits

\* The name without the prefix put before a leading digit.
Body == IF LeadingDigit THEN Tail(Returned) ELSE Returned

\* C17: the output of labelToDeveloperName holds characters of [A-Za-z0-9_]
\* only: the characters of the label in [A-Za-z0-9] are kept in their order
\* and every other character has become an underscore.
C17_OnlyNameCharacters ==
    devName # None =>
        /\ \A i \in DOMAIN Returned : Returned[i] \in AsciiAlnum \cup {"_"}
        /\ label.type = "string" =>
            /\ Only(Body, AsciiAlnum) = Only(label.chars, AsciiAlnum)
            /\ \A i \in DOMAIN Body : Body[i] \notin AsciiAlnum => Body[i] = "_"
            /\ (\E i \in DOMAIN label.chars : label.chars[i] \notin AsciiAlnum)
                => \E i \in DOMAIN Body : Body[i] = "_"

\* C17 witness: a label with a letter outside ASCII and a space was converted.
C17_Witness ==
    /\ devName # None
    /\ label.type = "string"
    /\ \E i, j \in DOMAIN label.chars : label.chars[i] = "é" /\ label.chars[j] = " "
    /\ \E i \in DOMAIN label.chars : label.chars[i] \in AsciiAlnum

\* C18: the output never starts with a digit: a name that starts with a digit
\* is returned with one "x" before it, any other name is returned as it is.
C18_NoLeadingDigit ==
    devName # None =>
        /\ Returned # << >> => Returned[1] \notin AsciiDigits
        /\ label.type = "string" =>
            IF LeadingDigit
            THEN /\ Returned[1] = "x"
                 /\ Tail(Returned)[1] = label.chars[1]
                 /\ Only(Returned, AsciiAlnum) = <<"x">> \o Only(label.chars, AsciiAlnum)
            ELSE /\ Only(Returned, AsciiAlnum) = Only(label.chars, AsciiAlnum)
                 /\ Len(Returned) <= Len(label.chars)

\* C18 witness: a label that starts with a digit and goes on with a letter
\* was converted.
C18_Witness ==
    /\ devName # None
    /\ label.type = "string"
    /\ Len(label.chars) >= 2
    /\ label.chars[1] = "7"
    /\ label.chars[2] = "a"

\* C19: the output holds no two underscores in a row: every maximal run of
\* underscores and replaced characters of the label has become one
\* underscore, the runs at the two ends included.
C19_RunsCollapseToOne ==
    (devName # None /\ label.type = "string") =>
        /\ \A i \in DOMAIN Returned :
            i > 1 => ~(Returned[i] = "_" /\ Returned[i - 1] = "_")
        /\ Len(Only(Body, {"_"})) = RunsOutsideAlnum(label.chars)
        /\ label.chars # << >> =>
            /\ (Body[1] = "_") <=> (label.chars[1] \notin AsciiAlnum)
            /\ (Body[Len(Body)] = "_") <=> (label.chars[Len(label.chars)] \notin AsciiAlnum)

\* C19 witness: a label of three characters outside [A-Za-z0-9], an
\* underscore among them, was converted to one underscore.
C19_Witness ==
    /\ devName # None
    /\ label.type = "string"
    /\ Len(label.chars) = 3
    /\ \A i \in DOMAIN label.chars : label.chars[i] \notin AsciiAlnum
    /\ \E i \in DOMAIN label.chars : label.chars[i] = "_"
    /\ Returned = <<"_">>

\* C20: labelToDeveloperName returns a string for every argument, and the
\* empty string exactly for the empty string and for an argument that is
\* no string.
C20_EmptyOnlyForEmpty ==
    devName # None =>
        (Returned = << >>) <=> (label.type # "string" \/ label.chars = << >>)

\* C20 witness: null was converted to the empty string.
C20_Witness ==
    /\ devName # None
    /\ label.type = "null"
    /\ Returned = << >>

(***************************************************************************)
(* SpecCli: the wrappers of the Salesforce CLI. Each runs `sf ... --json`  *)
(* with cp.exec and settles a promise in the callback (err, stdout,        *)
(* stderr).                                                                *)
(***************************************************************************)
\* The JSON envelope of the CLI: every member may be missing. `result`
\* stands for what the command lists (result.records of a query, the orgs
\* of `sf org list` with the default org among them): missing, empty or
\* with an entry.
Envelopes ==
    [status : {None, Some(0), Some(1)},
     message : {None, Some("message of the CLI")},
     name : {None, Some("NameOfTheError")},
     result : {None, Some(<< >>), Some(<<"entry">>)}]

\* The object {}
EmptyEnvelope == [status |-> None, message |-> None, name |-> None, result |-> None]

\* What the process wrote to stdout: nothing, text that is no JSON, or an
\* envelope.
Stdouts ==
    {[kind |-> k, json |-> EmptyEnvelope] : k \in {"empty", "unparsable"}}
    \cup {[kind |-> "json", json |-> e] : e \in Envelopes}

\* The arguments of the callback of cp.exec: err is set when the process
\* could not be run or exited with a code other than 0.
ProcessOutcomes == [err : BOOLEAN, stdout : Stdouts, stderr : {"", "text on stderr"}]

\* a ?? b, for a that may be missing
Coalesce(a, b) == IF a # None THEN a[1] ELSE b

Rejected(msg) == [state |-> "rejected", message |-> msg, value |-> None]

Resolved(v) == [state |-> "resolved", message |-> "", value |-> Some(v)]

\* A faulty variant of the parse: the envelope is read only when the process
\* ended without an error.
ParsedOrEmptyWhenOk(out) ==
    IF out.stdout.kind = "json" /\ ~out.err THEN out.stdout.json ELSE EmptyEnvelope

\* try { parsed = JSON.parse(stdout || '{}') } catch { parsed = {} }
ParsedOrEmpty(out) ==
    IF out.stdout.kind = "json" THEN out.stdout.json ELSE EmptyEnvelope

\* The callback shared by the wrappers: reject on err with
\* parsed.message ?? [parsed.name ??] stderr.trim(), reject on a status
\* other than 0 with parsed.message ?? fallback, else resolve.
SettleEnvelope(out, withName, fallback, value) ==
    LET parsed == ParsedOrEmpty(out)
    IN  IF out.err
        THEN Rejected(Coalesce(parsed.message,
                        IF withName THEN Coalesce(parsed.name, out.stderr)
                        ELSE out.stderr))
        ELSE IF parsed.status # None /\ parsed.status # Some(0)
        THEN Rejected(Coalesce(parsed.message, fallback))
        ELSE Resolved(value)

\* result?.records ?? []
RecordsOf(parsed) == Coalesce(parsed.result, << >>)

\* runSfDataQuery of refresh.ts: resolves to the envelope
RunSfDataQuery(out) == SettleEnvelope(out, TRUE, "Query failed", ParsedOrEmpty(out))

\* runSfDataQuery of the delete command: resolves to { records }
RunSfDataQueryRecords(out) ==
    SettleEnvelope(out, FALSE, "Query failed", RecordsOf(ParsedOrEmpty(out)))

\* runSfDataQueryWithContext of soql.ts
RunSfDataQueryWithContext(out) ==
    SettleEnvelope(out, FALSE, "Query failed", ParsedOrEmpty(out))

\* runSfDeleteRecord
RunSfDeleteRecord(out) == SettleEnvelope(out, FALSE, "Delete failed", "void")

\* runSfOrgDisplay
RunSfOrgDisplay(out) ==
    SettleEnvelope(out, FALSE, "Failed to get org details", ParsedOrEmpty(out))

\* runSfProjectRetrieve
RunSfProjectRetrieve(out) == SettleEnvelope(out, FALSE, "Retrieve failed", "void")

\* runSfCommand: rejects on err only, with the message of the envelope when
\* stdout parses and has one; resolves to stdout.
RunSfCommand(out) ==
    IF out.err
    THEN IF out.stdout.kind = "unparsable"
         THEN Rejected(out.stderr)
         ELSE Rejected(Coalesce(ParsedOrEmpty(out).message,
                          Coalesce(ParsedOrEmpty(out).name, out.stderr)))
    ELSE Resolved(out.stdout)

\* getDefaultOrgUsername: runSfCommand(['org', 'list', '--json']), then
\* JSON.parse (which throws on text that is no JSON), the check of the
\* status and the search for the default org.
GetDefaultOrgUsername(out) ==
    LET ran == RunSfCommand(out)
    IN  IF ran.state = "rejected" THEN ran
        ELSE IF out.stdout.kind # "json" THEN Rejected("SyntaxError")
        ELSE IF out.stdout.json.status # None /\ out.stdout.json.status # Some(0)
             THEN Rejected(Coalesce(out.stdout.json.message, "Failed to list orgs"))
        ELSE IF Coalesce(out.stdout.json.result, << >>) = << >>
             THEN Rejected("No default org set.")
        ELSE Resolved("username")

\* The operations that run the CLI.
CliOperations ==
    {"runSfDataQuery", "runSfDataQueryRecords", "runSfDataQueryWithContext",
     "runSfDeleteRecord", "runSfOrgDisplay", "runSfProjectRetrieve",
     "getDefaultOrgUsername"}

RunCli(op, out) ==
    CASE op = "runSfDataQuery" -> RunSfDataQuery(out)
      [] op = "runSfDataQueryRecords" -> RunSfDataQueryRecords(out)
      [] op = "runSfDataQueryWithContext" -> RunSfDataQueryWithContext(out)
      [] op = "runSfDeleteRecord" -> RunSfDeleteRecord(out)
      [] op = "runSfOrgDisplay" -> RunSfOrgDisplay(out)
      [] op = "runSfProjectRetrieve" -> RunSfProjectRetrieve(out)
      [] op = "getDefaultOrgUsername" -> GetDefaultOrgUsername(out)

InitCli ==
    /\ FlagsIdle
    /\ XmlIdle
    /\ ToggleIdle
    /\ CliIdle
    /\ RefreshIdle
    /\ TimerIdle
    /\ NameIdle
    /\ FinalIdle

\* One call of an operation, settled by the callback of cp.exec.
CliCall ==
    /\ cliCall = None
    /\ \E op \in CliOperations, out \in ProcessOutcomes :
        /\ cliCall' = Some([op |-> op, out |-> out])
        /\ cliResult' = Some(RunCli(op, out))
    /\ UNCHANGED <<flagVars, xmlVars, toggleVars, refreshVars, timerVars, nameVars,
                   finalVars>>

NextCli == CliCall

SpecCli == InitCli /\ [][NextCli]_vars

\* The envelope the process wrote, when it wrote one.
EnvelopeOf(out) == IF out.stdout.kind = "json" THEN Some(out.stdout.json) ELSE None

\* The process failed: it threw, or its envelope has a status other than 0.
CliFailed(out) ==
    \/ out.err
    \/ /\ EnvelopeOf(out) # None
       /\ EnvelopeOf(out)[1].status \notin {None, Some(0)}

MaxRuns == 2

Out(err, kind, status, message, result, stderr) ==
    [err |-> err,
     stdout |-> [kind |-> kind,
                 json |-> [status |-> status, message |-> message,
                           name |-> None, result |-> result]],
     stderr |-> stderr]

\* What `sf org list --json` can give: the orgs with the default org, the
\* orgs without one, a failure with the message of the CLI, and output that
\* is no JSON.
OrgListOutcomes ==
    {Out(FALSE, "json", Some(0), None, Some(<<"entry">>), ""),
     Out(FALSE, "json", Some(0), None, Some(<< >>), ""),
     Out(TRUE, "json", Some(1), Some("message of the CLI"), None, ""),
     Out(FALSE, "unparsable", None, None, None, "")}

\* What `sf data query --json` can give: records, output that is no JSON
\* from a process that ended with code 0, a failure with the message of the
\* CLI, and a process that could not be run.
QueryOutcomes ==
    {Out(FALSE, "json", Some(0), None, Some(<<"entry">>), ""),
     Out(FALSE, "unparsable", None, None, None, ""),
     Out(TRUE, "json", Some(1), Some("message of the CLI"), None, ""),
     Out(TRUE, "empty", None, None, None, "text on stderr")}

\* The outcomes of the three queries of one refresh: all give records, or
\* one of them gives something else.
QueryTriples ==
    {outs \in [1..3 -> QueryOutcomes] :
        Cardinality({k \in 1..3 : outs[k] # Out(FALSE, "json", Some(0), None, Some(<<"entry">>), "")}) <= 1}

CacheKeys == {"profiles", "permissionSets", "profilePermissionSetIds"}

\* A value of globalState: the data and the run that wrote it (0: a run
\* before the ones followed).
Cached(by, data) == [by |-> by, data |-> data]

NewRun(showMessage) ==
    [showMessage |-> showMessage,
     pc |-> "start",
     payloads |-> None,
     result |-> "pending",
     notes |-> {},
     queried |-> FALSE,
     unparsable |-> FALSE,
     noDefaultOrg |-> FALSE,
     failed |-> FALSE,
     overlaps |-> FALSE]

ErrorNote(text) == [kind |-> "error", text |-> text]

InfoNote == [kind |-> "info", text |-> "Loaded profiles and permission sets."]

\* A faulty variant of the catch: the error is shown in every mode.
FailRefreshAlwaysShown(run, text) ==
    [run EXCEPT !.pc = "done", !.result = "undefined", !.failed = TRUE,
                !.notes = @ \cup {ErrorNote(text)}]

\* The return for no workspace folder and the catch of doRefresh: the error
\* is shown when showMessage is set, and the promise resolves to undefined.
FailRefresh(run, text) ==
    [run EXCEPT !.pc = "done", !.result = "undefined", !.failed = TRUE,
                !.notes = IF run.showMessage THEN @ \cup {ErrorNote(text)} ELSE @]

InitRefresh ==
    /\ FlagsIdle
    /\ XmlIdle
    /\ ToggleIdle
    /\ CliIdle
    /\ TimerIdle
    /\ NameIdle
    /\ FinalIdle
    /\ workspaceFolders \in BOOLEAN
    /\ sfdxProject \in BOOLEAN
    /\ sfdxProject => workspaceFolders
    /\ cache = Some([k \in CacheKeys |-> Cached(0, <<"entry">>)])
    /\ runs = << >>

RefreshUnchanged ==
    UNCHANGED <<flagVars, xmlVars, toggleVars, cliVars, timerVars, nameVars,
                finalVars, workspaceFolders, sfdxProject>>

\* refreshPermissionMetadata up to its first await: without a workspace
\* folder it returns undefined, else it starts `sf org list`.
StartRefresh(showMessage) ==
    /\ Len(runs) < MaxRuns
    /\ runs' = Append(runs,
                 IF workspaceFolders
                 THEN [NewRun(showMessage) EXCEPT
                         !.pc = "orgList",
                         !.overlaps = \E j \in DOMAIN runs : runs[j].pc # "done"]
                 ELSE FailRefresh(NewRun(showMessage), "No workspace folder found."))
    /\ UNCHANGED cache
    /\ RefreshUnchanged

\* The refresh command
RefreshCommand == StartRefresh(TRUE)

\* runRefresh of the background timer, in a valid SFDX project
BackgroundRefresh ==
    /\ sfdxProject
    /\ StartRefresh(FALSE)

\* getDefaultOrgUsername has settled: a rejection is caught, else the three
\* queries are started.
OrgListDone(i) ==
    /\ runs[i].pc = "orgList"
    /\ \E out \in OrgListOutcomes :
        LET org == GetDefaultOrgUsername(out)
            run == [runs[i] EXCEPT
                      !.unparsable = @ \/ out.stdout.kind = "unparsable",
                      !.noDefaultOrg = org.message = "No default org set."]
        IN  runs' = [runs EXCEPT ![i] =
                        IF org.state = "rejected"
                        THEN FailRefresh(run, org.message)
                        ELSE [run EXCEPT !.pc = "queries", !.queried = TRUE]]
    /\ UNCHANGED cache
    /\ RefreshUnchanged

\* A faulty variant of QueriesDone: the profiles are written as soon as
\* their query has resolved, also when another query is rejected.
QueriesDoneWritingEarly(i) ==
    /\ runs[i].pc = "queries"
    /\ \E outs \in QueryTriples :
        LET res == [k \in 1..3 |-> RunSfDataQuery(outs[k])]
            run == [runs[i] EXCEPT
                      !.unparsable = \E k \in 1..3 : outs[k].stdout.kind = "unparsable"]
        IN  IF \E k \in 1..3 : res[k].state = "rejected"
            THEN /\ \E k \in 1..3 :
                      /\ res[k].state = "rejected"
                      /\ runs' = [runs EXCEPT ![i] = FailRefresh(run, res[k].message)]
                 /\ cache' = IF res[1].state = "rejected" THEN cache
                             ELSE Some([cache[1] EXCEPT !["profiles"] =
                                          Cached(i, RecordsOf(res[1].value[1]))])
            ELSE LET payloads == [k \in 1..3 |-> RecordsOf(res[k].value[1])]
                 IN  /\ runs' = [runs EXCEPT ![i] =
                                    [run EXCEPT !.pc = "write2",
                                                !.payloads = Some(payloads)]]
                     /\ cache' = Some([cache[1] EXCEPT
                                        !["profiles"] = Cached(i, payloads[1])])
    /\ RefreshUnchanged

\* Promise.all of the three queries has settled: a rejection of one of them
\* is caught; else the records are mapped and globalState.update is called
\* for the profiles.
QueriesDone(i) ==
    /\ runs[i].pc = "queries"
    /\ \E outs \in QueryTriples :
        LET res == [k \in 1..3 |-> RunSfDataQuery(outs[k])]
            run == [runs[i] EXCEPT
                      !.unparsable = \E k \in 1..3 : outs[k].stdout.kind = "unparsable"]
        IN  IF \E k \in 1..3 : res[k].state = "rejected"
            THEN /\ \E k \in 1..3 :
                      /\ res[k].state = "rejected"
                      /\ runs' = [runs EXCEPT ![i] = FailRefresh(run, res[k].message)]
                 /\ UNCHANGED cache
            ELSE LET payloads == [k \in 1..3 |-> RecordsOf(res[k].value[1])]
                 IN  /\ runs' = [runs EXCEPT ![i] =
                                    [run EXCEPT !.pc = "write2",
                                                !.payloads = Some(payloads)]]
                     /\ cache' = Some([cache[1] EXCEPT
                                        !["profiles"] = Cached(i, payloads[1])])
    /\ RefreshUnchanged

\* The update before has resolved: the next value is written, or the
\* update before was rejected and the rejection is caught.
WriteNext(i) ==
    /\ runs[i].pc \in {"write2", "write3"}
    /\ \/ /\ runs' = [runs EXCEPT ![i] =
                        FailRefresh(runs[i], "globalState.update failed")]
          /\ UNCHANGED cache
       \/ /\ runs' = [runs EXCEPT ![i].pc =
                        IF runs[i].pc = "write2" THEN "write3" ELSE "finish"]
          /\ cache' = Some([cache[1] EXCEPT
                        ![IF runs[i].pc = "write2" THEN "permissionSets"
                          ELSE "profilePermissionSetIds"] =
                            Cached(i, runs[i].payloads[1][
                                      IF runs[i].pc = "write2" THEN 2 ELSE 3])])
    /\ RefreshUnchanged

\* The last update has resolved: the message with the counts is shown when
\* showMessage is set and the result is returned.
FinishRefresh(i) ==
    /\ runs[i].pc = "finish"
    /\ runs' = [runs EXCEPT ![i] =
                  [runs[i] EXCEPT !.pc = "done", !.result = "value",
                                  !.notes = IF runs[i].showMessage
                                            THEN @ \cup {InfoNote} ELSE @]]
    /\ UNCHANGED cache
    /\ RefreshUnchanged

NextRefresh ==
    \/ RefreshCommand
    \/ BackgroundRefresh
    \/ \E i \in DOMAIN runs : OrgListDone(i)
    \/ \E i \in DOMAIN runs : QueriesDone(i)
    \/ \E i \in DOMAIN runs : WriteNext(i)
    \/ \E i \in DOMAIN runs : FinishRefresh(i)

SpecRefresh == InitRefresh /\ [][NextRefresh]_vars

\* Run i has written a value of the cache.
WroteCache(i) == \E k \in CacheKeys : cache[1][k].by = i

ShownErrors(i) == {n \in runs[i].notes : n.kind = "error"}

\* C12: a refresh in which the output of a CLI call was no JSON has failed:
\* it writes nothing to the cache, does not return a result, and the refresh
\* command reports an error for it.
C12_UnparsableOutputFails ==
    \A i \in DOMAIN runs :
        runs[i].unparsable =>
            /\ ~WroteCache(i)
            /\ runs[i].result # "value"
            /\ (runs[i].pc = "done" /\ runs[i].showMessage) => ShownErrors(i) # {}

\* The environment of the refresh command has an error: no workspace
\* folder, no valid SFDX project, or no default org.
EnvironmentError(i) ==
    ~workspaceFolders \/ ~sfdxProject \/ runs[i].noDefaultOrg

\* C13 (refresh command): with an environment error the command shows an
\* error message and returns without having issued a query to the org.
C13_EnvironmentErrorReported ==
    \A i \in DOMAIN runs :
        (runs[i].showMessage /\ EnvironmentError(i) /\ runs[i].pc # "orgList") =>
            /\ ~runs[i].queried
            /\ runs[i].pc = "done"
            /\ ShownErrors(i) # {}

\* C14: a background refresh (showMessage = false) shows no notification and
\* never rejects: when a step of it fails it resolves to undefined, and a
\* later tick starts a new refresh all the same.
C14_BackgroundFailsSilently ==
    \A i \in DOMAIN runs :
        ~runs[i].showMessage =>
            /\ runs[i].notes = {}
            /\ runs[i].result \in {"pending", "undefined", "value"}
            /\ runs[i].failed => (runs[i].pc = "done" /\ runs[i].result = "undefined")
            /\ (runs[i].failed /\ Len(runs) < MaxRuns) => ENABLED BackgroundRefresh

\* C14 witness: a background refresh failed in its queries and the next
\* background refresh has been started after it.
C14_Witness ==
    /\ Len(runs) >= 2
    /\ ~runs[1].showMessage
    /\ runs[1].failed
    /\ runs[1].queried
    /\ runs[1].result = "undefined"
    /\ ~runs[2].showMessage
    /\ runs[2].pc = "orgList"

\* Every refresh started has returned
AllRefreshesDone == \A i \in DOMAIN runs : runs[i].pc = "done"

\* The refreshes that wrote the values the cache holds
Writers == { cache[1][k].by : k \in CacheKeys } \cap DOMAIN runs

\* C25: when refreshes overlapped (one started before an earlier one had
\* returned) and all have returned, the cache does not hold values of two
\* of them: what they wrote of its three values was written by one and the
\* same refresh.
C25_CacheFromOneRefresh ==
    (AllRefreshesDone /\ \E i \in DOMAIN runs : runs[i].overlaps)
        => Cardinality(Writers) <= 1

\* The same of refreshes that all returned a result, none having failed.
CacheFromOneRefreshWhenNoneFailed ==
    (/\ AllRefreshesDone
     /\ \E i \in DOMAIN runs : runs[i].overlaps
     /\ \A i \in DOMAIN runs : runs[i].result = "value")
        => Cardinality(Writers) <= 1

\* The cache as it was before the refreshes followed
CacheAtStart == Some([k \in CacheKeys |-> Cached(0, <<"entry">>)])

\* The three queries of run i have not all resolved: the run is before
\* them or in them, or it failed at the lookup of the org or in a query
QueriesNotSucceeded(i) == runs[i].payloads = None

\* C26: a refresh whose lookup of the default org or whose queries failed
\* has written none of the three values, and the cache is as it was before
\* as long as no refresh has had its three queries succeed.
C26_FailedRefreshLeavesCache ==
    /\ \A i \in DOMAIN runs : QueriesNotSucceeded(i) => ~WroteCache(i)
    /\ (\A i \in DOMAIN runs : QueriesNotSucceeded(i)) => cache = CacheAtStart

\* C26 witness: a refresh failed in its queries, another failed at the
\* lookup of the org, and the cache is as it was.
C26_Witness ==
    /\ Len(runs) = 2
    /\ \E i, j \in DOMAIN runs :
        /\ runs[i].pc = "done" /\ runs[i].failed /\ runs[i].queried
        /\ runs[j].pc = "done" /\ runs[j].failed /\ ~runs[j].queried
        /\ QueriesNotSucceeded(i) /\ QueriesNotSucceeded(j)
    /\ cache = CacheAtStart

(***************************************************************************)
(* SpecTimer: the background schedule of the permission editor             *)
(* (scheduleBackgroundRefresh and activate). A timer is named by the       *)
(* number of the schedule that armed it.                                   *)
(***************************************************************************)
\* Number of times a schedule is armed.
MaxSchedules == 3

DEFAULT_REFRESH_INTERVAL_MINUTES == 15

MS_PER_MINUTE == 60000

\* The values the setting can have in the configuration: not set, numbers,
\* and a value that is no number.
Unset == [type |-> "unset", value |-> 0]

Num(n) == [type |-> "number", value |-> n]

Settings == {Unset, Num(0), Num(-1), Num(5), Num(30), [type |-> "string", value |-> 0]}

\* getRefreshIntervalMinutes
GetRefreshIntervalMinutes(configured) ==
    LET value == IF configured.type = "unset"
                 THEN Num(DEFAULT_REFRESH_INTERVAL_MINUTES) ELSE configured
    IN  IF value.type = "number" /\ value.value >= 0 THEN value.value ELSE 0

\* The timers of setInterval without the one backgroundTimer holds.
ClearBackgroundTimer ==
    IF backgroundTimer # None
    THEN {t \in intervals : t.id # backgroundTimer[1]}
    ELSE intervals

\* A faulty variant of scheduleBackgroundRefresh that does not clear the
\* timer it replaces.
ScheduleWithoutClear(configured) ==
    LET intervalMinutes == GetRefreshIntervalMinutes(configured)
    IN  IF intervalMinutes <= 0
        THEN /\ backgroundTimer' = None
             /\ UNCHANGED <<intervals, timeouts, nextId>>
        ELSE /\ nextId < MaxSchedules
             /\ nextId' = nextId + 1
             /\ timeouts' = timeouts \cup {nextId + 1}
             /\ intervals' = intervals \cup
                    {[id |-> nextId + 1, ms |-> intervalMinutes * MS_PER_MINUTE]}
             /\ backgroundTimer' = Some(nextId + 1)

\* scheduleBackgroundRefresh: the timer of backgroundTimer is cleared; for
\* an interval above 0 the first refresh is armed with setTimeout and the
\* periodic one with setInterval, which backgroundTimer then holds.
ScheduleBackgroundRefresh(configured) ==
    LET intervalMinutes == GetRefreshIntervalMinutes(configured)
    IN  IF intervalMinutes <= 0
        THEN /\ backgroundTimer' = None
             /\ intervals' = ClearBackgroundTimer
             /\ UNCHANGED <<timeouts, nextId>>
        ELSE /\ nextId < MaxSchedules
             /\ nextId' = nextId + 1
             /\ timeouts' = timeouts \cup {nextId + 1}
             /\ intervals' = ClearBackgroundTimer \cup
                    {[id |-> nextId + 1, ms |-> intervalMinutes * MS_PER_MINUTE]}
             /\ backgroundTimer' = Some(nextId + 1)

InitTimer ==
    /\ FlagsIdle
    /\ XmlIdle
    /\ ToggleIdle
    /\ CliIdle
    /\ NameIdle
    /\ FinalIdle
    /\ workspaceFolders = TRUE
    /\ sfdxProject \in BOOLEAN
    /\ cache = None
    /\ runs = << >>
    /\ ext = "loaded"
    /\ setting \in Settings
    /\ backgroundTimer = None
    /\ intervals = {}
    /\ timeouts = {}
    /\ nextId = 0
    /\ invoked = {}

TimerUnchanged ==
    UNCHANGED <<flagVars, xmlVars, toggleVars, cliVars, nameVars, refreshVars,
                finalVars>>

\* activate: the commands are registered, the schedule is made and the
\* listener and the disposer are pushed to context.subscriptions.
Activate ==
    /\ ext = "loaded"
    /\ ext' = "active"
    /\ ScheduleBackgroundRefresh(setting)
    /\ UNCHANGED <<setting, invoked>>
    /\ TimerUnchanged

\* The user changes the setting. While the extension is active the listener
\* of onDidChangeConfiguration makes the schedule anew.
ChangeRefreshInterval ==
    /\ \E configured \in Settings \ {setting} :
        /\ setting' = configured
        /\ IF ext = "active"
           THEN ScheduleBackgroundRefresh(configured)
           ELSE UNCHANGED <<backgroundTimer, intervals, timeouts, nextId>>
    /\ UNCHANGED <<ext, invoked>>
    /\ TimerUnchanged

\* context.subscriptions are disposed: the listener is removed and the
\* disposer clears the timer of backgroundTimer.
Dispose ==
    /\ ext = "active"
    /\ ext' = "disposed"
    /\ intervals' = ClearBackgroundTimer
    /\ backgroundTimer' = None
    /\ UNCHANGED <<setting, timeouts, nextId, invoked>>
    /\ TimerUnchanged

\* runRefresh, called by a timer of schedule id: in a valid SFDX project it
\* calls refreshPermissionMetadata(context, false). The call is recorded
\* with whether the schedule was the one in force.
RunRefresh(kind, id) ==
    invoked' =
        IF sfdxProject
        THEN invoked \cup {[kind |-> kind, id |-> id,
                            inForce |-> ext = "active" /\ backgroundTimer = Some(id)]}
        ELSE invoked

\* A timer of setTimeout fires, FIRST_REFRESH_DELAY_MS after its schedule
\* was made.
TimeoutFires ==
    /\ \E id \in timeouts :
        /\ timeouts' = timeouts \ {id}
        /\ RunRefresh("timeout", id)
    /\ UNCHANGED <<ext, setting, backgroundTimer, intervals, nextId>>
    /\ TimerUnchanged

\* A live timer of setInterval fires.
IntervalFires ==
    /\ sfdxProject
    /\ \E t \in intervals : RunRefresh("interval", t.id)
    /\ UNCHANGED <<ext, setting, backgroundTimer, intervals, timeouts, nextId>>
    /\ TimerUnchanged

NextTimer ==
    \/ Activate
    \/ ChangeRefreshInterval
    \/ Dispose
    \/ TimeoutFires
    \/ IntervalFires

SpecTimer == InitTimer /\ [][NextTimer]_vars

\* The configured interval is a number above 0 (15 when it is not set).
ConfiguredPositive ==
    \/ setting.type = "unset"
    \/ setting.type = "number" /\ setting.value > 0

\* C15: the number of live interval timers is 1 when the extension is
\* active and the configured interval is a number above 0, and 0 otherwise;
\* a live interval timer is always the one made last, the one before it
\* having been cleared.
C15_OneTimerWhenActive ==
    /\ Cardinality(intervals) = IF ext = "active" /\ ConfiguredPositive THEN 1 ELSE 0
    /\ \A t \in intervals : backgroundTimer = Some(t.id) /\ t.id = nextId

\* C15 witness: after two changes of the interval the extension is active
\* with one timer of the third schedule.
C15_Witness ==
    /\ ext = "active"
    /\ nextId = 3
    /\ Cardinality(intervals) = 1
    /\ setting = Num(5)

\* C16: a background refresh is started by the schedule in force only: none
\* is started after the subscriptions are disposed or the interval is set
\* to 0, and none by a timer of a schedule that was replaced.
C16_NoRefreshAfterTeardown ==
    \A r \in invoked : r.inForce

(***************************************************************************)
(* SpecPath: parseObjectFieldFromPath (permissioneditor/path.ts).          *)
(*                                                                         *)
(* A path is the sequence of its segments, from the root: the text between *)
(* the separators of an absolute path.  A segment is a stem and a suffix,  *)
(* the name being the two joined; a directory has the empty suffix.        *)
(***************************************************************************)
MaxPathLen == 5

Dir(name) == [stem |-> name, ext |-> ""]
File(name, suffix) == [stem |-> name, ext |-> suffix]
SegmentName(seg) == seg.stem \o seg.ext

PathSegments ==
    { Dir("objects"), Dir("fields"), Dir("Account"), Dir(".."),
      File("Account", ".object-meta.xml"),
      File("Name", ".field-meta.xml"),
      File("Name", ".xml") }

Paths == UNION { [1..n -> PathSegments] : n \in 1..MaxPathLen }

Null == [kind |-> "null"]

\* path.normalize of an absolute path: a ".." segment removes the segment
\* before it, and is dropped at the root.
RECURSIVE NormalizeFrom(_, _)
NormalizeFrom(done, rest) ==
    IF rest = << >> THEN done
    ELSE IF Head(rest) = Dir("..")
         THEN NormalizeFrom(IF done = << >> THEN << >>
                            ELSE SubSeq(done, 1, Len(done) - 1), Tail(rest))
         ELSE NormalizeFrom(Append(done, Head(rest)), Tail(rest))

Normalize(segs) == NormalizeFrom(<< >>, segs)

\* normalized.endsWith(suffix)
EndsWith(normalized, suffix) ==
    /\ normalized # << >>
    /\ normalized[Len(normalized)].ext = suffix

\* path.basename(normalized, suffix), of a path that ends with suffix
Basename(normalized, suffix) == normalized[Len(normalized)].stem

\* normalized.split(path.sep): the text before the first separator of an
\* absolute path is the empty string
PathParts(normalized) ==
    <<"">> \o [i \in 1..Len(normalized) |-> SegmentName(normalized[i])]

\* pathParts.findIndex((p) => p === name): the first index (from 0), or -1
FindIndex(pathParts, name) ==
    LET hits == { i \in 1..Len(pathParts) : pathParts[i] = name }
    IN  IF hits = {} THEN -1
        ELSE (CHOOSE i \in hits : \A j \in hits : i <= j) - 1

\* A faulty variant of ParseObjectFieldFromPath: a field file is taken
\* without looking for the 'fields' directory.
ParseWithoutFieldsIndex(segs) ==
    LET normalized == Normalize(segs)
        pathParts == PathParts(normalized)
        objectsIndex == FindIndex(pathParts, "objects")
    IN  IF EndsWith(normalized, ".object-meta.xml")
        THEN [kind |-> "object",
              objectApiName |-> Basename(normalized, ".object-meta.xml")]
        ELSE IF /\ EndsWith(normalized, ".field-meta.xml")
                /\ objectsIndex # -1
                /\ objectsIndex + 1 < Len(pathParts)
        THEN LET objectApiName == pathParts[objectsIndex + 2]
                 fieldApiName == Basename(normalized, ".field-meta.xml")
             IN  [kind |-> "field",
                  objectApiName |-> objectApiName,
                  fieldApiName |-> fieldApiName,
                  fieldFullName |-> objectApiName \o "." \o fieldApiName]
        ELSE Null

\* parseObjectFieldFromPath(filePath).  pathParts[i] of the code is
\* pathParts[i + 1] here, sequences being indexed from 1.
ParseObjectFieldFromPath(segs) ==
    LET normalized == Normalize(segs)
        pathParts == PathParts(normalized)
        objectsIndex == FindIndex(pathParts, "objects")
        fieldsIndex == FindIndex(pathParts, "fields")
    IN  IF EndsWith(normalized, ".object-meta.xml")
        THEN [kind |-> "object",
              objectApiName |-> Basename(normalized, ".object-meta.xml")]
        ELSE IF /\ EndsWith(normalized, ".field-meta.xml")
                /\ objectsIndex # -1
                /\ objectsIndex + 1 < Len(pathParts)
                /\ fieldsIndex # -1
                /\ fieldsIndex + 1 < Len(pathParts)
        THEN LET objectApiName == pathParts[objectsIndex + 2]
                 fieldApiName == Basename(normalized, ".field-meta.xml")
             IN  [kind |-> "field",
                  objectApiName |-> objectApiName,
                  fieldApiName |-> fieldApiName,
                  fieldFullName |-> objectApiName \o "." \o fieldApiName]
        ELSE Null

InitPath ==
    /\ FlagsIdle
    /\ XmlIdle
    /\ ToggleIdle
    /\ CliIdle
    /\ RefreshIdle
    /\ TimerIdle
    /\ NameIdle
    /\ FilterIdle
    /\ CreateIdle
    /\ DeleteIdle
    /\ filePath \in Paths
    /\ focusedMetadata = None

\* One call of parseObjectFieldFromPath(filePath)
ParseObjectFieldFromPathCall ==
    /\ filePath # None
    /\ focusedMetadata = None
    /\ focusedMetadata' = Some(ParseObjectFieldFromPath(filePath))
    /\ UNCHANGED filePath
    /\ UNCHANGED <<flagVars, xmlVars, toggleVars, cliVars, refreshVars, timerVars,
                   nameVars, filterVars, createVars, deleteVars>>

NextPath == ParseObjectFieldFromPathCall

SpecPath == InitPath /\ [][NextPath]_vars

\* The value parseObjectFieldFromPath returned
Parsed == focusedMetadata[1]

\* The names a directory of the paths can have
DirNames == { seg.stem : seg \in { d \in PathSegments : d.ext = "" /\ d # Dir("..") } }

\* The stems the files of the paths have
FileStems == { seg.stem : seg \in { f \in PathSegments : f.ext # "" } }

\* segs ends with the segments of tail
HasTail(segs, tail) ==
    /\ Len(segs) >= Len(tail)
    /\ SubSeq(segs, Len(segs) - Len(tail) + 1, Len(segs)) = tail

\* .../objects/X/X.object-meta.xml
ObjectForm(segs, X) ==
    HasTail(segs, <<Dir("objects"), Dir(X), File(X, ".object-meta.xml")>>)

\* .../objects/X/fields/Y.field-meta.xml
FieldForm(segs, X, Y) ==
    HasTail(segs, <<Dir("objects"), Dir(X), Dir("fields"), File(Y, ".field-meta.xml")>>)

\* C21: a path P/objects/X/X.object-meta.xml gives the object X, and a path
\* P/objects/X/fields/Y.field-meta.xml gives the field Y of the object X with
\* the full name X.Y, for every prefix P.
C21_FormGivesObjectOrField ==
    focusedMetadata # None =>
        \A X \in DirNames, Y \in FileStems :
            /\ ObjectForm(filePath, X) =>
                   Parsed = [kind |-> "object", objectApiName |-> X]
            /\ FieldForm(filePath, X, Y) =>
                   Parsed = [kind |-> "field", objectApiName |-> X,
                             fieldApiName |-> Y,
                             fieldFullName |-> X \o "." \o Y]

\* The path, as written or as normalized, has one of the two forms
OfEitherForm(segs) ==
    \E X \in DirNames, Y \in FileStems :
        \/ ObjectForm(segs, X)
        \/ FieldForm(segs, X, Y)

\* C22 as stated: a path of neither form gives null.
C22_NullOutsideTheForms ==
    focusedMetadata # None =>
        (~OfEitherForm(filePath) /\ ~OfEitherForm(Normalize(filePath))
            => Parsed = Null)

\* The path has a segment of this name once normalized
HasSegment(segs, name) ==
    \E i \in 1..Len(Normalize(segs)) : SegmentName(Normalize(segs)[i]) = name

\* The last segment of the normalized path has this suffix
LastSuffix(segs, suffix) ==
    /\ Normalize(segs) # << >>
    /\ Normalize(segs)[Len(Normalize(segs))].ext = suffix

\* C22 as amended: null is returned exactly for the paths that do not end
\* in .object-meta.xml and do not end in .field-meta.xml below both a
\* segment named objects and a segment named fields.
C22_NullExactlyWithoutSuffix ==
    focusedMetadata # None =>
        (Parsed = Null <=>
            /\ ~LastSuffix(filePath, ".object-meta.xml")
            /\ ~(/\ LastSuffix(filePath, ".field-meta.xml")
                 /\ HasSegment(filePath, "objects")
                 /\ HasSegment(filePath, "fields")))

\* C22 witness: a field file below objects and not below fields gave null.
C22_Witness ==
    /\ focusedMetadata = Some(Null)
    /\ LastSuffix(filePath, ".field-meta.xml")
    /\ HasSegment(filePath, "objects")
    /\ ~HasSegment(filePath, "fields")

(***************************************************************************)
(* SpecFilter: getPermissionSetMetadataFileUrisToDelete                    *)
(* (permsets/deleteMetadataFilter.ts).                                     *)
(*                                                                         *)
(* A string is the sequence of its parts: the characters of a name, and    *)
(* then the suffix of a metadata file as one part.  toLowerCase works on   *)
(* each part.                                                              *)
(***************************************************************************)
MaxUris == 2

PermSetSuffix == ".permissionset-meta.xml"

\* The suffixes the files have: as vscode writes it, as Salesforce writes
\* it on disk, and the suffix of another kind of metadata
Suffixes == {".permissionSet-meta.xml", PermSetSuffix, ".profile-meta.xml"}

\* String.prototype.toLowerCase, on one part
LowerPart(part) ==
    CASE part = "P" -> "p"
      [] part = "S" -> "s"
      [] part = ".permissionSet-meta.xml" -> ".permissionset-meta.xml"
      [] OTHER -> part

\* String.prototype.toLowerCase
ToLowerCase(str) == [i \in 1..Len(str) |-> LowerPart(str[i])]

\* The names of permission sets
PermSetNames == { <<"P">>, <<"P", "S">> }

\* The names before the suffix of the files
FileNames == { <<"P">>, <<"p">>, <<"S">>, <<"P", "S">>, <<"P", "s">> }

\* The URIs a search of the workspace can give: fsPath is dir/base
Uris ==
    { [dir |-> d, base |-> Append(n, x)] :
        d \in {"main", "other"}, n \in FileNames, x \in Suffixes }

UriLists == UNION { [1..n -> Uris] : n \in 0..MaxUris }

\* path.basename(u.fsPath)
UriBasename(u) == u.base

\* Array.prototype.filter, the predicate given as the set of the values
\* it holds of
RECURSIVE Filter(_, _)
Filter(list, kept) ==
    IF list = << >> THEN << >>
    ELSE IF Head(list) \in kept
         THEN <<Head(list)>> \o Filter(Tail(list), kept)
         ELSE Filter(Tail(list), kept)

\* A faulty variant of GetPermissionSetMetadataFileUrisToDelete: the
\* basename is compared as it is written.
GetUrisToDeleteCaseSensitive(list, name) ==
    LET expectedLower == ToLowerCase(Append(name, PermSetSuffix))
    IN  Filter(list, { u \in Uris : UriBasename(u) = expectedLower })

\* getPermissionSetMetadataFileUrisToDelete(uris, permSetName)
GetPermissionSetMetadataFileUrisToDelete(list, name) ==
    LET expectedLower == ToLowerCase(Append(name, PermSetSuffix))
    IN  Filter(list, { u \in Uris : ToLowerCase(UriBasename(u)) = expectedLower })

InitFilter ==
    /\ FlagsIdle
    /\ XmlIdle
    /\ ToggleIdle
    /\ CliIdle
    /\ RefreshIdle
    /\ TimerIdle
    /\ NameIdle
    /\ PathIdle
    /\ CreateIdle
    /\ DeleteIdle
    /\ uris \in UriLists
    /\ permSetName \in PermSetNames
    /\ toDelete = None

\* One call of getPermissionSetMetadataFileUrisToDelete(uris, permSetName)
GetUrisToDeleteCall ==
    /\ permSetName # None
    /\ toDelete = None
    /\ toDelete' = Some(GetPermissionSetMetadataFileUrisToDelete(uris, permSetName))
    /\ UNCHANGED <<uris, permSetName>>
    /\ UNCHANGED <<flagVars, xmlVars, toggleVars, cliVars, refreshVars, timerVars,
                   nameVars, pathVars, createVars, deleteVars>>

NextFilter == GetUrisToDeleteCall

SpecFilter == InitFilter /\ [][NextFilter]_vars

\* The URIs getPermissionSetMetadataFileUrisToDelete returned
Selected == toDelete[1]

\* One part in capitals
UpperPart(part) ==
    CASE part = "p" -> "P"
      [] part = "s" -> "S"
      [] part = ".permissionSet-meta.xml" -> ".PERMISSIONSET-META.XML"
      [] part = ".permissionset-meta.xml" -> ".PERMISSIONSET-META.XML"
      [] part = ".profile-meta.xml" -> ".PROFILE-META.XML"
      [] OTHER -> part

\* The basename of u is name.permissionset-meta.xml but for the case of
\* its letters
NamesFileOf(u, name) ==
    LET wanted == Append(name, PermSetSuffix)
    IN  /\ Len(u.base) = Len(wanted)
        /\ \A i \in 1..Len(wanted) : UpperPart(u.base[i]) = UpperPart(wanted[i])

\* The positions of list whose URI is the file of name, in order
RECURSIVE PositionsOf(_, _, _)
PositionsOf(list, name, i) ==
    IF i > Len(list) THEN << >>
    ELSE IF NamesFileOf(list[i], name)
         THEN <<i>> \o PositionsOf(list, name, i + 1)
         ELSE PositionsOf(list, name, i + 1)

\* C23: the URIs returned are exactly the URIs passed in whose basename is
\* name.permissionset-meta.xml but for case, in the order passed in; a file
\* of another permission set or with more text before the suffix is not
\* among them.
C23_ExactlyTheFilesOfTheName ==
    toDelete # None =>
        LET at == PositionsOf(uris, permSetName, 1)
        IN  /\ Selected = [k \in 1..Len(at) |-> uris[at[k]]]
            /\ \A k \in 1..Len(Selected) :
                   Len(Selected[k].base) = Len(permSetName) + 1

\* C23 witness: of a file of the name written .permissionSet-meta.xml and a
\* file with one more character before the suffix, the first was returned.
C23_Witness ==
    /\ permSetName = <<"P">>
    /\ Len(uris) = 2 
    /\ uris[1].base = <<"P", "S", ".permissionset-meta.xml">>
    /\ uris[2].base = <<"P", ".permissionSet-meta.xml">>
    /\ toDelete = Some(<<uris[2]>>)

(***************************************************************************)
(* SpecCreate: one run of createPermissionSet (permsets/developerName.ts   *)
(* holds the command after labelToDeveloperName).                          *)
(***************************************************************************)
\* What a prompt resolves to: undefined when it is dismissed, else the text
\* typed or the item picked
Undefined == [type |-> "undefined"]
Str(text) == [type |-> "string", value |-> text]
Picked(v) == [type |-> "pick", value |-> v]

TextAnswers == { Undefined, Str(""), Str(" "), Str("My Set"), Str(" My Set ") }
PickAnswers == { Undefined, Picked(FALSE), Picked(TRUE) }

\* String.prototype.trim, on the texts of TextAnswers
Trim(text) ==
    CASE text = " " -> ""
      [] text = " My Set " -> "My Set"
      [] OTHER -> text

PromptNames == {"label", "name", "description", "sessionRequiredPick", "retrievePick"}

\* A faulty variant of EmptyOrDismissed: only a dismissed prompt counts.
DismissedOnly(answer) == answer = Undefined

\* x === undefined || x.trim() === '', of a required text
EmptyOrDismissed(answer) ==
    \/ answer = Undefined
    \/ Trim(answer.value) = ""

\* The settings of createPermissionSet.retrieveAfterCreate: whether the
\* user set it (globalValue or workspaceValue), and its value
RetrieveSettings == [userSet : BOOLEAN, value : BOOLEAN]

InitCreate ==
    /\ FlagsIdle
    /\ XmlIdle
    /\ ToggleIdle
    /\ CliIdle
    /\ TimerIdle
    /\ NameIdle
    /\ PathIdle
    /\ FilterIdle
    /\ DeleteIdle
    /\ workspaceFolders \in BOOLEAN
    /\ sfdxProject = FALSE
    /\ cache = None
    /\ runs = << >>
    /\ createPc = "start"
    /\ answers = [p \in PromptNames |-> None]
    /\ retrieveSetting \in RetrieveSettings
    /\ createLog = << >>
    /\ createShown = {}

CreateUnchanged ==
    UNCHANGED <<flagVars, xmlVars, toggleVars, cliVars, refreshVars, timerVars,
                nameVars, pathVars, filterVars, deleteVars, retrieveSetting>>

\* The run ends (return), after showing a message if one is given
CreateEnds(message) ==
    /\ createPc' = "done"
    /\ createShown' = IF message = None THEN createShown
                      ELSE createShown \cup {message[1]}

\* createPermissionSet up to its first await
CreateStart ==
    /\ createPc = "start"
    /\ IF ~workspaceFolders
       THEN /\ CreateEnds(Some("No workspace folder found. Please open a workspace folder."))
            /\ UNCHANGED createLog
       ELSE /\ createPc' = "getDefaultOrgUsername"
            /\ createLog' = Append(createLog, "getDefaultOrgUsername")
            /\ UNCHANGED createShown
    /\ UNCHANGED answers
    /\ CreateUnchanged

\* getDefaultOrgUsername settles; the label prompt opens when it resolved
CreateOrgKnown ==
    /\ createPc = "getDefaultOrgUsername"
    /\ \E resolved_ \in BOOLEAN :
        IF resolved_
        THEN createPc' = "label" /\ UNCHANGED createShown
        ELSE CreateEnds(Some("getDefaultOrgUsername failed"))
    /\ UNCHANGED <<answers, createLog>>
    /\ CreateUnchanged

\* The label prompt resolves: the run ends on a dismissed or blank label,
\* else the name prompt opens with the suggested name
AnswerLabel ==
    /\ createPc = "label"
    /\ \E answer \in TextAnswers :
        /\ answers' = [answers EXCEPT !.label = Some(answer)]
        /\ IF EmptyOrDismissed(answer)
           THEN CreateEnds(None)
           ELSE createPc' = "name" /\ UNCHANGED createShown
    /\ UNCHANGED createLog
    /\ CreateUnchanged

\* The developer name prompt resolves
AnswerName ==
    /\ createPc = "name"
    /\ \E answer \in TextAnswers :
        /\ answers' = [answers EXCEPT !.name = Some(answer)]
        /\ IF EmptyOrDismissed(answer)
           THEN CreateEnds(None)
           ELSE createPc' = "description" /\ UNCHANGED createShown
    /\ UNCHANGED createLog
    /\ CreateUnchanged

\* The description prompt resolves: a blank description is taken
AnswerDescription ==
    /\ createPc = "description"
    /\ \E answer \in TextAnswers :
        /\ answers' = [answers EXCEPT !.description = Some(answer)]
        /\ IF answer = Undefined
           THEN CreateEnds(None)
           ELSE createPc' = "sessionRequiredPick" /\ UNCHANGED createShown
    /\ UNCHANGED createLog
    /\ CreateUnchanged

\* runSfOrgDisplay is started (lines 164-173)
StartOrgDisplay ==
    /\ createPc' = "runSfOrgDisplay"
    /\ createLog' = Append(createLog, "runSfOrgDisplay")
    /\ UNCHANGED createShown

\* The session activation pick resolves; with the retrieve setting set by
\* the user no further prompt opens
AnswerSessionRequired ==
    /\ createPc = "sessionRequiredPick"
    /\ \E answer \in PickAnswers :
        /\ answers' = [answers EXCEPT !.sessionRequiredPick = Some(answer)]
        /\ IF answer = Undefined
           THEN CreateEnds(None) /\ UNCHANGED createLog
           ELSE IF retrieveSetting.userSet
           THEN StartOrgDisplay
           ELSE createPc' = "retrievePick" /\ UNCHANGED <<createShown, createLog>>
    /\ CreateUnchanged

\* The retrieve pick resolves
AnswerRetrieve ==
    /\ createPc = "retrievePick"
    /\ \E answer \in PickAnswers :
        /\ answers' = [answers EXCEPT !.retrievePick = Some(answer)]
        /\ IF answer = Undefined
           THEN CreateEnds(None) /\ UNCHANGED createLog
           ELSE StartOrgDisplay
    /\ CreateUnchanged

\* retrieveAfterCreate of the run
RetrieveAfterCreate ==
    IF retrieveSetting.userSet THEN retrieveSetting.value
    ELSE answers.retrievePick[1].value

\* runSfOrgDisplay settles: rejected, resolved without a token or an
\* instance URL, or resolved with both; the POST is sent in the last case
OrgDisplayDone ==
    /\ createPc = "runSfOrgDisplay"
    /\ \E outcome \in {"rejected", "incomplete", "credentials"} :
        CASE outcome = "rejected" ->
                 /\ CreateEnds(Some("Failed to get org credentials"))
                 /\ UNCHANGED createLog
          [] outcome = "incomplete" ->
                 /\ CreateEnds(Some("Could not get access token or instance URL from org."))
                 /\ UNCHANGED createLog
          [] outcome = "credentials" ->
                 /\ createPc' = "fetch"
                 /\ createLog' = Append(createLog, "POST PermissionSet")
                 /\ UNCHANGED createShown
    /\ UNCHANGED answers
    /\ CreateUnchanged

\* The response of the POST arrives
PostDone ==
    /\ createPc = "fetch"
    /\ \E ok \in BOOLEAN :
        IF ~ok
        THEN /\ CreateEnds(Some("Failed to create permission set"))
             /\ UNCHANGED createLog
        ELSE IF RetrieveAfterCreate
        THEN /\ createPc' = "runSfProjectRetrieve"
             /\ createShown' = createShown \cup {"was created"}
             /\ createLog' = Append(createLog, "runSfProjectRetrieve")
        ELSE /\ CreateEnds(Some("was created"))
             /\ UNCHANGED createLog
    /\ UNCHANGED answers
    /\ CreateUnchanged

\* runSfProjectRetrieve settles
CreateRetrieveDone ==
    /\ createPc = "runSfProjectRetrieve"
    /\ \E ok \in BOOLEAN :
        CreateEnds(Some(IF ok THEN "Retrieved permission set metadata"
                        ELSE "Permission set created but retrieve failed"))
    /\ UNCHANGED <<answers, createLog>>
    /\ CreateUnchanged

NextCreate ==
    \/ CreateStart
    \/ CreateOrgKnown
    \/ AnswerLabel
    \/ AnswerName
    \/ AnswerDescription
    \/ AnswerSessionRequired
    \/ AnswerRetrieve
    \/ OrgDisplayDone
    \/ PostDone
    \/ CreateRetrieveDone

SpecCreate == InitCreate /\ [][NextCreate]_vars

\* A prompt was shown and dismissed, or a required text was left blank
PromptCancelled ==
    /\ answers # None
    /\ \/ \E q \in PromptNames : answers[q] = Some(Undefined)
       \/ \E q \in {"label", "name"} :
              /\ answers[q] # None
              /\ answers[q][1].type = "string"
              /\ answers[q][1].value \in {"", " "}

\* The calls the run has made
Called(call) == \E i \in 1..Len(createLog) : createLog[i] = call

\* C24: once a prompt of createPermissionSet is dismissed, or a required
\* label or developer name is left blank, the command has ended, and the
\* POST creating the permission set and the retrieve are never issued.
C24_CancelIssuesNoCall ==
    PromptCancelled =>
        /\ createPc = "done"
        /\ ~Called("POST PermissionSet")
        /\ ~Called("runSfProjectRetrieve")

\* C24 witness: the run ended at the retrieve pick, the last prompt, after
\* four prompts were answered.
C24_Witness ==
    /\ createPc = "done"
    /\ answers # None
    /\ answers.retrievePick = Some(Undefined)
    /\ answers.name = Some(Str(" My Set "))

(***************************************************************************)
(* SpecDelete: one run of deletePermissionSet.                             *)
(*                                                                         *)
(* deleteLog holds a call from the moment it is issued: out is what the    *)
(* CLI process gave (None until it ended, and for calls that run no        *)
(* process), settled is the state of the promise.                          *)
(***************************************************************************)
MaxAssignments == 2

Good(records) == Out(FALSE, "json", Some(0), None, Some(records), "")

CliFailure == Out(TRUE, "json", Some(1), Some("message of the CLI"), None, "")

NoJson == Out(FALSE, "unparsable", None, None, None, "")

\* What the query of the permission sets can give
ListOutcomes == { Good(<<"entry">>), Good(<< >>), CliFailure, NoJson }

\* What the query of the assignments can give: up to MaxAssignments
\* records, a failure of the CLI, or output that is no JSON
AssignmentOutcomes ==
    { Good([k \in 1..n |-> k]) : n \in 0..MaxAssignments } \cup { CliFailure, NoJson }

\* What `sf data delete record --json` can give
DeleteOutcomes == { Good(<< >>), CliFailure, NoJson }

\* The setting deletePermissionSet.deleteMetadataFile: set by the user or
\* not, and its value
DeleteSettings == [userSet : BOOLEAN, value : BOOLEAN]

\* The metadata files the two searches of the workspace can give
WorkspaceUris ==
    { u \in Uris : /\ u.dir = "main"
                   /\ u.base[Len(u.base)] # ".profile-meta.xml"
                   /\ SubSeq(u.base, 1, Len(u.base) - 1) \in PermSetNames }

FoundLists ==
    { list \in UNION { [1..n -> WorkspaceUris] : n \in 0..MaxUris } :
        \A a, b \in DOMAIN list : a # b => list[a] # list[b] }

Pending(call) == [call |-> call, out |-> None, settled |-> "pending"]

\* The call issued last has settled
Settle(out, state) ==
    [deleteLog EXCEPT ![Len(deleteLog)].out = out, ![Len(deleteLog)].settled = state]

\* The run ends (return), after showing a message if one is given
DeleteEnds(message) ==
    /\ deletePc' = "done"
    /\ deleteShown' = IF message = None THEN deleteShown
                      ELSE deleteShown \cup {message[1]}

InitDelete ==
    /\ FlagsIdle
    /\ XmlIdle
    /\ ToggleIdle
    /\ CliIdle
    /\ TimerIdle
    /\ NameIdle
    /\ PathIdle
    /\ CreateIdle
    /\ workspaceFolders \in BOOLEAN
    /\ sfdxProject = FALSE
    /\ cache = None
    /\ runs = << >>
    /\ uris = << >>
    /\ permSetName = None
    /\ toDelete = None
    /\ deletePc = "start"
    /\ deleteMetadataFile = None
    /\ assignmentRecords = << >>
    /\ deleteLog = << >>
    /\ deleteShown = {}

DeleteUnchanged ==
    UNCHANGED <<flagVars, xmlVars, toggleVars, cliVars, refreshVars, timerVars,
                nameVars, pathVars, createVars>>

\* deletePermissionSet up to its first await
DeleteStart ==
    /\ deletePc = "start"
    /\ IF ~workspaceFolders
       THEN /\ DeleteEnds(Some("No workspace folder found. Please open a workspace folder."))
            /\ UNCHANGED deleteLog
       ELSE /\ deletePc' = "getDefaultOrgUsername"
            /\ deleteLog' = Append(deleteLog, Pending("getDefaultOrgUsername"))
            /\ UNCHANGED deleteShown
    /\ UNCHANGED <<deleteMetadataFile, assignmentRecords, filterVars>>
    /\ DeleteUnchanged

\* getDefaultOrgUsername settles; the permission sets are queried when it
\* resolved
DeleteOrgKnown ==
    /\ deletePc = "getDefaultOrgUsername"
    /\ \E out \in OrgListOutcomes :
        LET org == GetDefaultOrgUsername(out)
        IN  IF org.state = "rejected"
            THEN /\ deleteLog' = Settle(Some(out), "rejected")
                 /\ DeleteEnds(Some(org.message))
            ELSE /\ deleteLog' = Append(Settle(Some(out), "resolved"),
                                        Pending("query PermissionSet"))
                 /\ deletePc' = "query PermissionSet"
                 /\ UNCHANGED deleteShown
    /\ UNCHANGED <<deleteMetadataFile, assignmentRecords, filterVars>>
    /\ DeleteUnchanged

\* The query of the permission sets settles: the pick opens when it gave
\* records
PermissionSetsListed ==
    /\ deletePc = "query PermissionSet"
    /\ \E out \in ListOutcomes :
        LET res == RunSfDataQueryRecords(out)
        IN  /\ deleteLog' = Settle(Some(out), res.state)
            /\ IF res.state = "rejected"
               THEN DeleteEnds(Some("Failed to list permission sets"))
               ELSE IF res.value[1] = << >>
               THEN DeleteEnds(Some("No custom permission sets found in the org."))
               ELSE deletePc' = "selected" /\ UNCHANGED deleteShown
    /\ UNCHANGED <<deleteMetadataFile, assignmentRecords, filterVars>>
    /\ DeleteUnchanged

\* The query of the assignments is issued (lines 165-179)
QueryAssignments(log) ==
    /\ deletePc' = "query PermissionSetAssignment"
    /\ deleteLog' = Append(log, Pending("query PermissionSetAssignment"))
    /\ UNCHANGED deleteShown

\* The pick of the permission set resolves; with the setting set by the
\* user no further pick opens
PermissionSetPicked ==
    /\ deletePc = "selected"
    /\ \/ /\ DeleteEnds(None)
          /\ UNCHANGED <<deleteLog, deleteMetadataFile, permSetName>>
       \/ \E name \in PermSetNames, setting_ \in DeleteSettings :
            /\ permSetName' = name
            /\ IF setting_.userSet
               THEN /\ deleteMetadataFile' = Some(setting_.value)
                    /\ QueryAssignments(deleteLog)
               ELSE /\ deletePc' = "choice"
                    /\ UNCHANGED <<deleteLog, deleteMetadataFile, deleteShown>>
    /\ UNCHANGED <<assignmentRecords, uris, toDelete>>
    /\ DeleteUnchanged

\* The pick for the metadata file resolves
MetadataFileChosen ==
    /\ deletePc = "choice"
    /\ \E answer \in PickAnswers :
        IF answer = Undefined
        THEN /\ DeleteEnds(None)
             /\ UNCHANGED <<deleteLog, deleteMetadataFile>>
        ELSE /\ deleteMetadataFile' = Some(answer.value)
             /\ QueryAssignments(deleteLog)
    /\ UNCHANGED <<assignmentRecords, filterVars>>
    /\ DeleteUnchanged

\* How many calls of this kind have been issued
Issued(call) == Cardinality({ k \in DOMAIN deleteLog : deleteLog[k].call = call })

\* The loop over assignmentRecords and what follows it (lines 188-207):
\* the next assignment is deleted, and the permission set after the last
NextOrgDelete(log, records, deleted) ==
    IF deleted < Len(records)
    THEN /\ deletePc' = "delete PermissionSetAssignment"
         /\ deleteLog' = Append(log, Pending("delete PermissionSetAssignment"))
    ELSE /\ deletePc' = "delete PermissionSet"
         /\ deleteLog' = Append(log, Pending("delete PermissionSet"))

\* The query of the assignments settles
AssignmentsQueried ==
    /\ deletePc = "query PermissionSetAssignment"
    /\ \E out \in AssignmentOutcomes :
        LET res == RunSfDataQueryRecords(out)
        IN  IF res.state = "rejected"
            THEN /\ deleteLog' = Settle(Some(out), "rejected")
                 /\ DeleteEnds(Some("Failed to query permission set assignments"))
                 /\ UNCHANGED assignmentRecords
            ELSE /\ assignmentRecords' = res.value[1]
                 /\ NextOrgDelete(Settle(Some(out), "resolved"), res.value[1], 0)
                 /\ UNCHANGED deleteShown
    /\ UNCHANGED <<deleteMetadataFile, filterVars>>
    /\ DeleteUnchanged

\* The delete of one assignment settles
UnassignDone ==
    /\ deletePc = "delete PermissionSetAssignment"
    /\ \E out \in DeleteOutcomes :
        IF RunSfDeleteRecord(out).state = "rejected"
        THEN /\ deleteLog' = Settle(Some(out), "rejected")
             /\ DeleteEnds(Some("Failed to unassign permission set"))
        ELSE /\ NextOrgDelete(Settle(Some(out), "resolved"), assignmentRecords,
                              Issued("delete PermissionSetAssignment"))
             /\ UNCHANGED deleteShown
    /\ UNCHANGED <<deleteMetadataFile, assignmentRecords, filterVars>>
    /\ DeleteUnchanged

\* The message of line 239, which ends the run
Deleted == DeleteEnds(Some("Permission set was deleted."))

\* The delete of the permission set settles; the two searches for metadata
\* files start when their deletion was chosen
PermissionSetDeleted ==
    /\ deletePc = "delete PermissionSet"
    /\ \E out \in DeleteOutcomes :
        IF RunSfDeleteRecord(out).state = "rejected"
        THEN /\ deleteLog' = Settle(Some(out), "rejected")
             /\ DeleteEnds(Some("Failed to delete permission set"))
        ELSE IF deleteMetadataFile = Some(TRUE)
        THEN /\ deleteLog' = Append(Settle(Some(out), "resolved"), Pending("findFiles"))
             /\ deletePc' = "findFiles"
             /\ UNCHANGED deleteShown
        ELSE /\ deleteLog' = Settle(Some(out), "resolved")
             /\ Deleted
    /\ UNCHANGED <<deleteMetadataFile, assignmentRecords, filterVars>>
    /\ DeleteUnchanged

\* The loop over toDelete (lines 228-236) and the message after it
NextFileDelete(log, matching, deleted) ==
    IF deleted < Len(matching)
    THEN /\ deletePc' = "fs.delete"
         /\ deleteLog' = Append(log, Pending("fs.delete"))
         /\ UNCHANGED deleteShown
    ELSE /\ deleteLog' = log
         /\ Deleted

\* The searches resolve: the lists are merged without repetition and
\* filtered by the name of the permission set
FilesFound ==
    /\ deletePc = "findFiles"
    /\ \E found \in FoundLists :
        LET matching == GetPermissionSetMetadataFileUrisToDelete(found, permSetName)
        IN  /\ uris' = found
            /\ toDelete' = Some(matching)
            /\ NextFileDelete(Settle(None, "resolved"), matching, 0)
    /\ UNCHANGED <<permSetName, deleteMetadataFile, assignmentRecords>>
    /\ DeleteUnchanged

\* The delete of one file settles; a failure is shown and the loop goes on
FileDeleted ==
    /\ deletePc = "fs.delete"
    /\ \/ NextFileDelete(Settle(None, "resolved"), toDelete[1], Issued("fs.delete"))
       \/ /\ IF Issued("fs.delete") < Len(toDelete[1])
             THEN /\ deletePc' = "fs.delete"
                  /\ deleteLog' = Append(Settle(None, "rejected"), Pending("fs.delete"))
                  /\ deleteShown' = deleteShown \cup {"failed to delete metadata file"}
             ELSE /\ deleteLog' = Settle(None, "rejected")
                  /\ DeleteEnds(Some("failed to delete metadata file"))
    /\ UNCHANGED <<filterVars, deleteMetadataFile, assignmentRecords>>
    /\ DeleteUnchanged

NextDelete ==
    \/ DeleteStart
    \/ DeleteOrgKnown
    \/ PermissionSetsListed
    \/ PermissionSetPicked
    \/ MetadataFileChosen
    \/ AssignmentsQueried
    \/ UnassignDone
    \/ PermissionSetDeleted
    \/ FilesFound
    \/ FileDeleted

SpecDelete == InitDelete /\ [][NextDelete]_vars

(***************************************************************************)
(* The order of the steps of the delete command                            *)
(***************************************************************************)
\* The calls that change the org or the project
OrgSteps ==
    {"query PermissionSetAssignment", "delete PermissionSetAssignment",
     "delete PermissionSet"}

\* The promise of the call resolved
StepResolved(e) == e.settled = "resolved"

\* The call succeeded in the sense of the error categories of the spec: the
\* promise resolved, and a CLI process gave a JSON envelope
StepSucceeded(e) ==
    /\ e.settled = "resolved"
    /\ e.out # None => e.out[1].stdout.kind = "json"

\* The steps run in order, and each is issued only after what precedes it
\* was Ok
StrictOrder(Ok(_)) ==
    /\ \A k \in DOMAIN deleteLog :
        deleteLog[k].call = "delete PermissionSetAssignment" =>
            \E j \in 1..(k - 1) : /\ deleteLog[j].call = "query PermissionSetAssignment"
                                  /\ Ok(deleteLog[j])
    /\ \A k \in DOMAIN deleteLog :
        deleteLog[k].call = "delete PermissionSet" =>
            /\ \E j \in 1..(k - 1) : deleteLog[j].call = "query PermissionSetAssignment"
            /\ \A j \in 1..(k - 1) : deleteLog[j].call \in OrgSteps => Ok(deleteLog[j])
            /\ Cardinality({ j \in 1..(k - 1) :
                   deleteLog[j].call = "delete PermissionSetAssignment" })
                 = Len(assignmentRecords)
            /\ \A j \in DOMAIN deleteLog :
                   deleteLog[j].call = "delete PermissionSetAssignment" => j < k
    /\ \A k \in DOMAIN deleteLog :
        deleteLog[k].call \in {"findFiles", "fs.delete"} =>
            /\ deleteMetadataFile = Some(TRUE)
            /\ \E j \in 1..(k - 1) : /\ deleteLog[j].call = "delete PermissionSet"
                                     /\ Ok(deleteLog[j])
            /\ \A j \in DOMAIN deleteLog : deleteLog[j].call \in OrgSteps => j < k
    /\ \A j \in DOMAIN deleteLog :
        (deleteLog[j].call \in OrgSteps /\ deleteLog[j].settled # "pending"
            /\ ~Ok(deleteLog[j])) => j = Len(deleteLog)

\* C30: deletePermissionSet runs its steps in strict order (the assignments,
\* then the permission set, then the local metadata files) and a failure at
\* any step prevents all later steps: the permission set is deleted only
\* after the query of the assignments and every delete of an assignment
\* succeeded, and a local file only after the delete in the org succeeded
\* and only when the deletion of metadata files was chosen.
C30_StrictOrderFailureStops == StrictOrder(StepSucceeded)

\* The same order, with "succeeded" read as "the promise of the wrapper
\* resolved"
StrictOrderOfResolvedSteps == StrictOrder(StepResolved)

\* A file of the project was deleted after the permission set and its two
\* assignments
FileDeletedAfterOrgDelete ==
    /\ deletePc = "done"
    /\ Len(assignmentRecords) = 2
    /\ \E k \in DOMAIN deleteLog : /\ deleteLog[k].call = "fs.delete"
                                   /\ deleteLog[k].settled = "resolved"

\* A delete of an assignment was rejected and nothing followed it
UnassignRejected ==
    /\ deletePc = "done"
    /\ Len(assignmentRecords) = 2
    /\ deleteLog[Len(deleteLog)].call = "delete PermissionSetAssignment"
    /\ deleteLog[Len(deleteLog)].settled = "rejected"

====
